---- MODULE Spec2Model ----
(***************************************************************************)
(* Model of seestar/StatisticalModels.py: the GaussianEM objective path    *)
(* (nll, lnprob, lnprior, lnlike), the prior battery, the mixture          *)
(* evaluators, the integration routines, the public density call, the      *)
(* optimization driver (optimizeParams, optimize), inverse2x2 on arrays,   *)
(* the array storage the objective path writes to, and the start of a fit  *)
(* (construction, initParams, the initial ensemble of emcee_ball).         *)
(*                                                                         *)
(* Number representation (fixed point, all integers):                      *)
(*   positions            integer position units                          *)
(*   eigenvalues (l1,l2)  sixteenths                                      *)
(*   angles               index 0..6 into the table of angles             *)
(*                        0, atan(3/4), atan(4/3), pi/2, pi-atan(4/3),     *)
(*                        pi-atan(3/4), pi, whose sines and cosines are    *)
(*                        exact fifths (Sin5, Cos5)                        *)
(*   covariance entries   1/400 (fifths squared times sixteenths)          *)
(*   densities, logs, integrals   thousandths                              *)
(* float specials are the reserved values NaN, NegInf, PosInf.             *)
(***************************************************************************)
EXTENDS Integers, Sequences, FiniteSets, TLC

VARIABLES integration, priorDF, runningL, params_l, params_u, params_f,
          iter_count, cand, op, ret, ok, calls, pts, out,
          params_f_scaled, seterr, frame, raised, evals, matrix

vars == <<integration, priorDF, runningL, params_l, params_u, params_f,
          iter_count, cand, op, ret, ok, calls, pts, out,
          params_f_scaled, seterr, frame, raised, evals, matrix>>

---------------------------------------------------------------------------
(* Bounds of the model *)

\* number of mixture components (nComponents)
NComp == 2
\* points per side of the precomputed grid (Nx_int, Ny_int = 250 in the code)
GridN == 3
\* grid of simpsonIntegrate (Nx_int, Ny_int = 100, 250 in the code)
SimpNx == 2
SimpNy == 3
\* cap on iter_count
MaxIter == 1
\* number of evaluation points passed to the density call
NPts == 3
\* cap on the objective evaluations one run of a minimizer makes
MaxEvals == 1

---------------------------------------------------------------------------
(* Floats *)

NaN == 999999999
NegInf == -900000000
PosInf == 900000000

\* the outcome of a call that raised ValueError instead of returning a float
ValueError == 888888888

isnan(a) == a = NaN
isfinite(a) == a # NaN /\ a # NegInf /\ a # PosInf

\* IEEE comparisons: every comparison with NaN is false
FLt(a, b) == ~isnan(a) /\ ~isnan(b) /\ a < b
FLe(a, b) == ~isnan(a) /\ ~isnan(b) /\ a <= b
FGt(a, b) == FLt(b, a)
FGe(a, b) == FLe(b, a)

FNeg(a) == IF isnan(a) THEN NaN ELSE -a

FAdd(a, b) ==
    IF isnan(a) \/ isnan(b) THEN NaN
    ELSE IF (a = PosInf /\ b = NegInf) \/ (a = NegInf /\ b = PosInf) THEN NaN
    ELSE IF a = PosInf \/ b = PosInf THEN PosInf
    ELSE IF a = NegInf \/ b = NegInf THEN NegInf
    ELSE a + b

FSub(a, b) == FAdd(a, FNeg(b))

\* product and quotient of a float with a positive finite number
FScale(a, k) == IF isfinite(a) THEN a * k ELSE a
FQuot(a, k) == IF isfinite(a) THEN a \div k ELSE a

\* an ndarray: its entries are computed once, when the array is built
ndarray(f) == f \o <<>>

\* the value a name was bound to: S is {e(v) : v \in {value}}, in which the value
\* is computed once however often e uses it
Only(S) == CHOOSE v \in S : TRUE

\* product of two densities in thousandths
FMul(a, b) == IF isnan(a) \/ isnan(b) THEN NaN ELSE (a * b) \div 1000

\* elementwise product of two arrays of densities
ArrMul(f, g) == ndarray([i \in 1..Len(f) |-> FMul(f[i], g[i])])

\* sum of the first k entries of an array
RECURSIVE FSumTo(_, _)
FSumTo(s, k) == IF k = 0 THEN 0 ELSE FAdd(s[k], FSumTo(s, k - 1))

\* np.sum of an array
FSum(s) == FSumTo(s, Len(s))

\* np.max of the first k entries of an array: a NaN anywhere gives NaN
RECURSIVE FMaxTo(_, _)
FMaxTo(s, k) ==
    IF k = 1 THEN s[1]
    ELSE LET m == FMaxTo(s, k - 1)
         IN  IF isnan(s[k]) \/ isnan(m) THEN NaN
             ELSE IF s[k] > m THEN s[k] ELSE m

\* the first entry of an array instead of its maximum
np_first(s) == s[1]

np_max(s) == FMaxTo(s, Len(s))

Abs(a) == IF a < 0 THEN -a ELSE a

\* floor of the square root
RECURSIVE IsqrtIter(_, _, _)
IsqrtIter(n, lo, hi) ==
    IF lo >= hi THEN lo
    ELSE LET mid == (lo + hi + 1) \div 2
         IN  IF mid * mid <= n THEN IsqrtIter(n, mid, hi)
             ELSE IsqrtIter(n, lo, mid - 1)

Isqrt(n) == IsqrtIter(n, 0, 46340)

\* np.exp(-q/2) in thousandths, q given as k = floor(2q)
ExpTab == <<1000, 779, 607, 472, 368, 287, 223, 174, 135, 105, 82, 64, 50,
            39, 30, 24, 18, 14, 11, 9, 7, 5, 4, 3, 2, 2, 2, 1, 1>>

ExpNegHalf(k) == IF k + 1 <= Len(ExpTab) THEN ExpTab[k + 1] ELSE 0

\* np.log of a value in thousandths, in thousandths
RECURSIVE LnMilli(_)
LnMilli(v) ==
    IF v >= 2000 THEN 693 + LnMilli(v \div 2)
    ELSE IF v < 1000 THEN LnMilli(2 * v) - 693
    ELSE ((v - 1000) * 693) \div 1000

np_log(v) ==
    IF isnan(v) THEN NaN
    ELSE IF v = PosInf THEN PosInf
    ELSE IF v < 0 THEN NaN
    ELSE IF v = 0 THEN NegInf
    ELSE LnMilli(v)

\* scipy.special.erfc in thousandths, argument given as k = floor(4z)
ErfcTab == <<1000, 724, 480, 289, 157, 77, 34, 13, 5, 1>>

erfc(k) ==
    IF k >= 0 THEN (IF k + 1 <= Len(ErfcTab) THEN ErfcTab[k + 1] ELSE 0)
    ELSE 2000 - (IF -k <= Len(ErfcTab) THEN ErfcTab[-k] ELSE 0)

---------------------------------------------------------------------------
(* Angles *)

Sin5 == <<0, 3, 4, 5, 4, 3, 0>>
Cos5 == <<5, 4, 3, 0, -3, -4, -5>>
ThetaMilli == <<0, 644, 927, 1571, 2214, 2498, 3142>>

\* a negative index is the negated angle
sin5(th) == IF th >= 0 THEN Sin5[th + 1] ELSE -Sin5[1 - th]
cos5(th) == IF th >= 0 THEN Cos5[th + 1] ELSE Cos5[1 - th]
radians(th) == IF th >= 0 THEN ThetaMilli[th + 1] ELSE -ThetaMilli[1 - th]

\* np.arctan2(s, c) for a sine and cosine of the table: the angle in (-pi, pi]
arctan2(s, c) == CHOOSE t \in -6..6 : sin5(t) = s /\ cos5(t) = c /\ (s = 0 => t >= 0)

---------------------------------------------------------------------------
(* Parameter tables: a sequence of rows <<mean-x, mean-y, l1, l2, theta, weight>> *)

MX == 1
MY == 2
L1 == 3
L2 == 4
TH == 5
WT == 6

HasNaN(row) == \E c \in 1..6 : isnan(row[c])

(* 2x2 matrices <<<<m00, m01>>, <<m10, m11>>>> *)
MatMul(A, B) ==
    << <<A[1][1] * B[1][1] + A[1][2] * B[2][1], A[1][1] * B[1][2] + A[1][2] * B[2][2]>>,
       <<A[2][1] * B[1][1] + A[2][2] * B[2][1], A[2][1] * B[1][2] + A[2][2] * B[2][2]>> >>

MatAdd(A, B) ==
    << <<A[1][1] + B[1][1], A[1][2] + B[1][2]>>,
       <<A[2][1] + B[2][1], A[2][2] + B[2][2]>> >>

Transpose(A) == << <<A[1][1], A[2][1]>>, <<A[1][2], A[2][2]>> >>

\* R = [[cos, sin], [-sin, cos]], in fifths
rotation(th) == << <<cos5(th), sin5(th)>>, <<-sin5(th), cos5(th)>> >>

diag(a, b) == << <<a, 0>>, <<0, b>> >>

\* sigma = R diag(l1, l2) R^T, in 1/400
Sigma(row) ==
    LET R == rotation(row[TH])
    IN  MatMul(R, MatMul(diag(row[L1], row[L2]), Transpose(R)))

\* closed-form inverse: the inverse is adj/det
inverse2x2(M) ==
    [adj |-> << <<M[2][2], -M[1][2]>>, <<-M[2][1], M[1][1]>> >>,
     det |-> M[1][1] * M[2][2] - M[1][2] * M[2][1]]

\* np.linalg.inv and np.linalg.det of a 2x2 matrix
linalg_inv(M) ==
    [adj |-> << <<M[2][2], -M[1][2]>>, <<-M[2][1], M[1][1]>> >>,
     det |-> M[1][1] * M[2][2] - M[2][1] * M[1][2]]

\* d^T A d
Quad(A, d) ==
    d[1] * (A[1][1] * d[1] + A[1][2] * d[2]) + d[2] * (A[2][1] * d[1] + A[2][2] * d[2])

\* exp(-(d^T S^-1 d)/2) in thousandths, S^-1 = adj/det with S in 1/400
ExpTerm(inv, d) ==
    LET num == Quad(inv.adj, d)
    IN  IF 10 * num >= inv.det THEN 0
        ELSE ExpNegHalf((800 * num) \div inv.det)

\* the arrays of points a distribution function (lambda a, b: ...) is called on
PointArrays == Seq(Int \X Int)

\* bivGaussMix_vect(params, x, y) on the points P, in thousandths: per component
\* the inverse covariance and the normalisation, per point the weighted sum
bivGaussMix_vect(params, P) ==
    LET n == Len(params)
        comp == ndarray([j \in 1..n |->
            IF HasNaN(params[j]) THEN [nan |-> TRUE]
            ELSE LET sigma == Sigma(params[j])
                     inv_cov == linalg_inv(sigma)
                 IN  IF inv_cov.det <= 0 THEN [nan |-> TRUE]
                     ELSE [nan |-> FALSE, inv |-> inv_cov,
                           norm |-> 4000000 \div Isqrt(3948 * inv_cov.det)]])
        term(j, pt) ==
            IF comp[j].nan \/ isnan(pt[1]) \/ isnan(pt[2]) THEN NaN
            ELSE LET X == <<pt[1] - params[j][MX], pt[2] - params[j][MY]>>
                 IN  (params[j][WT] * comp[j].norm * ExpTerm(comp[j].inv, X)) \div 1000
    IN  ndarray([i \in 1..Len(P) |-> FSum([j \in 1..n |-> term(j, P[i])])])

\* one pair of error_convolution with the weight of the component left out
ConvTerm_unweighted(row, pt, sig) ==
    IF HasNaN(row) \/ isnan(pt[1]) \/ isnan(pt[2]) THEN NaN
    ELSE LET sig_product == MatAdd(Sigma(row), sig)
             mu_product == <<row[MX] - pt[1], row[MY] - pt[2]>>
             inv == inverse2x2(sig_product)
         IN  IF inv.det <= 0 THEN NaN
             ELSE LET norm == 400000000 \div (628 * Isqrt(100 * inv.det))
                  IN  (norm * ExpTerm(inv, mu_product)) \div 1000

\* one (star, component) pair of error_convolution, in thousandths
ConvTerm(row, pt, sig) ==
    IF HasNaN(row) \/ isnan(pt[1]) \/ isnan(pt[2]) THEN NaN
    ELSE LET sig_product == MatAdd(Sigma(row), sig)
             mu_product == <<row[MX] - pt[1], row[MY] - pt[2]>>
             inv == inverse2x2(sig_product)
         IN  IF inv.det <= 0 THEN NaN
             ELSE LET norm == 400000000 \div (628 * Isqrt(100 * inv.det))
                  IN  (row[WT] * norm * ExpTerm(inv, mu_product)) \div 1000

\* error_convolution: per point, the sum over components
error_convolution(params, P, sig) ==
    ndarray([i \in 1..Len(P) |->
        FSum([j \in 1..Len(params) |-> ConvTerm(params[j], P[i], sig[i])])])

---------------------------------------------------------------------------
(* The observation set and the scaling record (GaussianEM.__init__) *)

\* observed points, real-world units
x == <<-1, 1>>
y == <<-1, 1>>
\* per-point measurement covariance, in 1/400
sig_xy == << diag(0, 0), diag(100, 100) >>
\* survey range
rngx == <<-6, 6>>
rngy == <<-6, 6>>

RECURSIVE SeqSum(_)
SeqSum(s) == IF s = <<>> THEN 0 ELSE Head(s) + SeqSum(Tail(s))

Mean(s) == SeqSum(s) \div Len(s)
Std(s) == Isqrt(SeqSum([i \in 1..Len(s) |-> (s[i] - Mean(s)) * (s[i] - Mean(s))]) \div Len(s))

mux == IF Len(x) > 1 THEN Mean(x) ELSE Mean(x)
sx == IF Len(x) > 1 THEN Std(x) ELSE (rngx[2] - rngx[1]) \div 4
muy == IF Len(y) > 1 THEN Mean(y) ELSE Mean(y)
sy == IF Len(x) > 1 THEN Std(y) ELSE (rngy[2] - rngy[1]) \div 4

feature_scaling(xx, yy, mx_, my_, sx_, sy_) ==
    << [i \in DOMAIN xx |-> (xx[i] - mx_) \div sx_],
       [i \in DOMAIN yy |-> (yy[i] - my_) \div sy_] >>

covariance_scaling(sigxy, sx_, sy_) ==
    [i \in DOMAIN sigxy |->
        << <<sigxy[i][1][1] \div (sx_ * sx_), sigxy[i][1][2] \div (sx_ * sy_)>>,
           <<sigxy[i][2][1] \div (sy_ * sx_), sigxy[i][2][2] \div (sy_ * sy_)>> >>]

x_s == feature_scaling(x, y, mux, muy, sx, sy)[1]
y_s == feature_scaling(x, y, mux, muy, sx, sy)[2]
rngx_s == feature_scaling(rngx, rngy, mux, muy, sx, sy)[1]
rngy_s == feature_scaling(rngx, rngy, mux, muy, sx, sy)[2]
sig_xy_s == covariance_scaling(sig_xy, sx, sy)

\* the observed points as <<x, y>> pairs
XY(xs, ys) == [i \in DOMAIN xs |-> <<xs[i], ys[i]>>]

\* np.linspace(a, b, n)
linspace(a, b, n) == [i \in 1..n |-> a + ((i - 1) * (b - a)) \div (n - 1)]

\* np.meshgrid(x_coords, y_coords) as <<x, y>> pairs, raveled: entry (i, j) of
\* the 2-d arrays (row i, column j) is entry (i - 1) * Len(xc) + j
meshgrid(xc, yc) ==
    ndarray([k \in 1..(Len(yc) * Len(xc)) |->
        <<xc[((k - 1) % Len(xc)) + 1], yc[((k - 1) \div Len(xc)) + 1]>>])

\* the precomputed grid (x_2d, y_2d)
xy_2d == meshgrid(linspace(rngx_s[1], rngx_s[2], GridN), linspace(rngy_s[1], rngy_s[2], GridN))

---------------------------------------------------------------------------
(* The prior battery *)

\* total = np.sum(params <= params_l) + np.sum(params >= params_u); total == 0
prior_bounds(params, pl, pu) ==
    LET cells == (1..Len(params)) \X (1..6)
        total == Cardinality({jc \in cells : FLe(params[jc[1]][jc[2]], pl[jc[1]][jc[2]])})
                 + Cardinality({jc \in cells : FGe(params[jc[1]][jc[2]], pu[jc[1]][jc[2]])})
    IN  total = 0

\* sort order of np.argsort: ascending, NaN last
Before(keys, i, j) ==
    \/ FLt(keys[i], keys[j])
    \/ ~isnan(keys[i]) /\ isnan(keys[j])
    \/ (keys[i] = keys[j] /\ i < j)

\* the positions left as they are, whatever the keys
argsort_identity(keys) == [pos \in 1..Len(keys) |-> pos]

\* np.argsort(keys): the index that lands at each position
argsort(keys) ==
    [pos \in 1..Len(keys) |->
        CHOOSE j \in 1..Len(keys) :
            Cardinality({i \in 1..Len(keys) : Before(keys, i, j)}) = pos - 1]

\* the ordering test with lambda1 >= lambda2 rejected
prior_multim_strict(params) ==
    LET n == Len(params)
        l_order == Cardinality({j \in 1..n : FGe(params[j][L1], params[j][L2])})
        order == argsort([j \in 1..n |-> params[j][MX]])
        comp_order == Cardinality({j \in 1..n : order[j] # j})
    IN  l_order + comp_order = 0

prior_multim(params) ==
    LET n == Len(params)
        l_order == Cardinality({j \in 1..n : FGt(params[j][L1], params[j][L2])})
        order == argsort([j \in 1..n |-> params[j][MX]])
        comp_order == Cardinality({j \in 1..n : order[j] # j})
    IN  l_order + comp_order = 0

\* the four corners of np.meshgrid(rngx, rngy).reshape(2, 4)
Corners(rx, ry) == << <<rx[1], ry[1]>>, <<rx[2], ry[1]>>, <<rx[1], ry[2]>>, <<rx[2], ry[2]>> >>

\* min of a non-empty set of integers (dl.sort(axis=2); dl[..., 0])
MinOf(S) == CHOOSE m \in S : \A k \in S : m <= k
MaxOf(S) == CHOOSE m \in S : \A k \in S : m >= k

\* np.sum((corners - mean) * angle, axis=1) for one component, in fifths
Proj(row, corner, ax, ay) == (corner[1] - row[MX]) * ax + (corner[2] - row[MY]) * ay

\* separation = |dl| / (sqrt(2) * component_stds) > 25, dl in fifths and
\* component_stds (params[:, 2:4]) in sixteenths:  (16 |dl|)^2 > 2 * (125 * l)^2
SepExceeds(dl, l) == 256 * dl * dl > 31250 * l * l

prior_erfprecision(params, rx, ry) ==
    LET cs == Corners(rx, ry)
        \* angle1 = (sin th, cos th)
        dl1(row) == MinOf({Proj(row, cs[c], sin5(row[TH]), cos5(row[TH])) : c \in 1..4})
        \* angle2 = (sin(th + pi/2), cos(th + pi/2)) = (cos th, -sin th)
        dl2(row) == MinOf({Proj(row, cs[c], cos5(row[TH]), -sin5(row[TH])) : c \in 1..4})
        numeric(row) == ~isnan(row[MX]) /\ ~isnan(row[MY]) /\ ~isnan(row[TH])
        bad(row) == /\ numeric(row)
                    /\ \/ ~isnan(row[L1]) /\ SepExceeds(dl1(row), row[L1])
                       \/ ~isnan(row[L2]) /\ SepExceeds(dl2(row), row[L2])
    IN  ~(\E j \in 1..Len(params) : bad(params[j]))

\* f_max = np.max(function(xx, yy)); prior = not f_max > 1
SFprior(function, xy) == ~FGt(np_max(function[xy]), 1000)

---------------------------------------------------------------------------
(* Integration routines *)

\* 2 * pi * A * |sigmax * sigmay| * sqrt(1 - rho**2), with
\* mux, sigmax, muy, sigmay, A, rho = params (one row of the table)
bivariateIntegral(row) ==
    LET sigmax == row[2]
        sigmay == row[4]
        A == row[5]
        rho == row[6]
    IN  IF isnan(sigmax) \/ isnan(sigmay) \/ isnan(A) \/ isnan(rho) THEN NaN
        ELSE IF rho * rho > 1 THEN NaN
        ELSE LET root == IF rho = 0 THEN 1 ELSE 0
             IN  (((6283 * radians(A)) \div 1000) * Abs(sigmax * sigmay) * root) \div 16

multiIntegral(params, nComponents) ==
    FSum([i \in 1..nComponents |-> bivariateIntegral(params[i])])

\* trapezium rule on the precomputed grid, both diagonals of each cell
numericalIntegrate_precompute(function, xy) ==
    LET n == GridN
        at(i, j) == (i - 1) * n + j
        z_2d == function[xy]
        dx(i, j) == xy[at(i + 1, j + 1)][1] - xy[at(i + 1, j)][1]
        dy(i, j) == xy[at(i + 1, j + 1)][2] - xy[at(i, j + 1)][2]
        \* the cells, raveled: cell (i, j) is entry (i - 1) * (n - 1) + j
        ci(k) == ((k - 1) \div (n - 1)) + 1
        cj(k) == ((k - 1) % (n - 1)) + 1
        volume1 == [k \in 1..((n - 1) * (n - 1)) |->
            FScale(FAdd(z_2d[at(ci(k), cj(k))], z_2d[at(ci(k) + 1, cj(k) + 1)]),
                   dx(ci(k), cj(k)) * dy(ci(k), cj(k)))]
        volume2 == [k \in 1..((n - 1) * (n - 1)) |->
            FScale(FAdd(z_2d[at(ci(k), cj(k) + 1)], z_2d[at(ci(k) + 1, cj(k))]),
                   dx(ci(k), cj(k)) * dy(ci(k), cj(k)))]
    IN  FQuot(FAdd(FSum(volume1), FSum(volume2)), 4)

\* erfc(dl / (sqrt(2) * sqrt(var))), dl in fifths, var in sixteenths
ErfcAt(dl, var) == erfc((1600 * dl) \div (5 * Isqrt(20000 * var)))

bivGauss_analytical_approx(params, rx, ry) ==
    LET cs == Corners(rx, ry)
        \* angle1 = (cos th, -sin th), angle2 = (sin th, cos th)
        d1(row) == {Proj(row, cs[c], cos5(row[TH]), -sin5(row[TH])) : c \in 1..4}
        d2(row) == {Proj(row, cs[c], sin5(row[TH]), cos5(row[TH])) : c \in 1..4}
        axis(D, var) == Abs(ErfcAt(MaxOf(D), var) - ErfcAt(MinOf(D), var)) \div 2
        comp(row) ==
            IF HasNaN(row) \/ row[L1] <= 0 \/ row[L2] <= 0 THEN NaN
            ELSE (((axis(d1(row), row[L1]) * axis(d2(row), row[L2])) \div 1000) * row[WT])
    IN  FSum([j \in 1..Len(params) |-> comp(params[j])])

\* Simpson's rule on its own grid
simpsonIntegrate(function, rx, ry) ==
    LET Nx_int == SimpNx
        Ny_int == SimpNy
        x_coords == linspace(rx[1], rx[2], Nx_int)
        y_coords == linspace(ry[1], ry[2], Ny_int)
        dx == (rx[2] - rx[1]) \div Nx_int
        dy == (ry[2] - ry[1]) \div Ny_int
        xy == meshgrid(x_coords, y_coords)
        at(i, j) == (i - 1) * Nx_int + j
        z_2d == function[xy]
        z_intx == function[ndarray([k \in 1..Len(xy) |-> <<xy[k][1] + dx \div 2, xy[k][2]>>])]
        z_inty == function[ndarray([k \in 1..Len(xy) |-> <<xy[k][1], xy[k][2] + dy \div 2>>])]
        \* volume1 has shape (Ny - 1, Nx), volume2 has shape (Ny, Nx - 1)
        volume1 == [k \in 1..((Ny_int - 1) * Nx_int) |->
            FScale(FAdd(FAdd(z_2d[k], FScale(z_intx[k], 4)), z_2d[k + Nx_int]), dx * dy)]
        volume2 == [k \in 1..(Ny_int * (Nx_int - 1)) |->
            LET i == ((k - 1) \div (Nx_int - 1)) + 1
                j == ((k - 1) % (Nx_int - 1)) + 1
            IN  FScale(FAdd(FAdd(z_2d[at(i, j)], FScale(z_inty[at(i, j)], 4)), z_2d[at(i, j + 1)]),
                       dx * dy)]
    IN  FQuot(FAdd(FSum(volume1), FSum(volume2)), 12)

\* integrationRoutine falling back to the trapezium rule for a name it does not
\* know
integrationRoutine_fallback(function, param_set, nComponents, rx, ry, xy, integ) ==
    CASE integ = "analytic" -> multiIntegral(param_set, nComponents)
      [] integ = "analyticApprox" -> bivGauss_analytical_approx(param_set, rx, ry)
      [] integ = "simpson" -> simpsonIntegrate(function, rx, ry)
      [] OTHER -> numericalIntegrate_precompute(function, xy)

integrationRoutine(function, param_set, nComponents, rx, ry, xy, integ) ==
    CASE integ = "analytic" -> multiIntegral(param_set, nComponents)
      [] integ = "trapezium" -> numericalIntegrate_precompute(function, xy)
      [] integ = "analyticApprox" -> bivGauss_analytical_approx(param_set, rx, ry)
      [] integ = "simpson" -> simpsonIntegrate(function, rx, ry)
      [] OTHER -> ValueError

---------------------------------------------------------------------------
(* Product of the fitted mixture with the prior density *)

\* the prior density in scaled units (self.params_df): one isotropic component
params_df == << <<0, 0, 16, 16, 0, 100>> >>

MatVec(A, v) == <<A[1][1] * v[1] + A[1][2] * v[2], A[2][1] * v[1] + A[2][2] * v[2]>>

\* what np.linalg.eig may return for a product covariance: the two eigenpairs in
\* either order, each eigenvector with either sign
EigOutcomes == [swap : BOOLEAN, s1 : {1, -1}, s2 : {1, -1}]

\* one row of gmm_product_p: the product of a fitted component (row1) with a
\* component of the prior density (row2, isotropic, so that the product
\* covariance has the eigenvectors (cos, -sin), (sin, cos) of row1)
ProductRow(row1, row2, eig) ==
    IF HasNaN(row1) \/ HasNaN(row2) THEN <<NaN, NaN, NaN, NaN, NaN, NaN>>
    ELSE LET sig1 == Sigma(row1)
             sig2 == Sigma(row2)
             mu1 == <<row1[MX], row1[MY]>>
             mu2 == <<row2[MX], row2[MY]>>
             norm_inv == inverse2x2(MatAdd(sig1, sig2))
             \* mu3 = sig3 sig1^-1 mu1 + sig3 sig2^-1 mu2
             \*     = (sig2 adj mu1 + sig1 adj mu2) / det, adj/det = (sig1 + sig2)^-1
             m1 == MatVec(MatMul(sig2, norm_inv.adj), mu1)
             m2 == MatVec(MatMul(sig1, norm_inv.adj), mu2)
             mu3 == <<(m1[1] + m2[1]) \div norm_inv.det, (m1[2] + m2[2]) \div norm_inv.det>>
             \* eigenvalues of sig3 = (sig1^-1 + sig2^-1)^-1
             e1 == (row1[L1] * row2[L1]) \div (row1[L1] + row2[L1])
             e2 == (row1[L2] * row2[L2]) \div (row1[L2] + row2[L2])
             c == cos5(row1[TH])
             s == sin5(row1[TH])
             \* th3 = arctan2(eigvecs[0, 1], eigvecs[0, 0])
             th3 == IF eig.swap THEN arctan2(eig.s2 * c, eig.s1 * s)
                                ELSE arctan2(eig.s2 * s, eig.s1 * c)
             mu_norm == <<mu1[1] - mu2[1], mu1[2] - mu2[2]>>
             norm == 400000000 \div (628 * Isqrt(100 * norm_inv.det))
             cij == (norm * ExpTerm(norm_inv, mu_norm)) \div 1000
             w3 == (row1[WT] * row2[WT] * cij) \div 1000
         IN  IF eig.swap THEN <<mu3[1], mu3[2], e2, e1, th3, w3>>
                         ELSE <<mu3[1], mu3[2], e1, e2, th3, w3>>

\* gmm_product_p(params1, params2).reshape(-1, 6): row (i2, i1) at i2 * n + i1
gmm_product_p(params1, params2, eig) ==
    LET n == Len(params1)
    IN  ndarray([k \in 1..(Len(params2) * n) |->
            ProductRow(params1[((k - 1) % n) + 1], params2[((k - 1) \div n) + 1], eig)])

---------------------------------------------------------------------------
(* The objective: lnprior, lnlike, lnprob *)

Integrations == {"trapezium", "analytic", "analyticApprox", "simpson"}

\* lnprior with the precision-safety test applied under every integration
\* setting: a test that is not applicable rejects
lnprior_always_erf(params) ==
    IF ~prior_bounds(params, params_l, params_u)
    THEN [val |-> NegInf, calls |-> <<"prior_bounds">>]
    ELSE IF ~prior_multim(params)
    THEN [val |-> NegInf, calls |-> <<"prior_bounds", "prior_multim">>]
    ELSE IF ~prior_erfprecision(params, rngx_s, rngy_s)
    THEN [val |-> NegInf, calls |-> <<"prior_bounds", "prior_multim", "prior_erfprecision">>]
    ELSE IF priorDF /\ ~SFprior([Q \in PointArrays |-> bivGaussMix_vect(params, Q)], xy_2d)
    THEN [val |-> NegInf,
          calls |-> <<"prior_bounds", "prior_multim", "prior_erfprecision", "SFprior">>]
    ELSE [val |-> 0, calls |-> IF priorDF
              THEN <<"prior_bounds", "prior_multim", "prior_erfprecision", "SFprior">>
              ELSE <<"prior_bounds", "prior_multim", "prior_erfprecision">>]

\* lnprior with the monotone-selection-function test run first
lnprior_sf_first(params) ==
    IF priorDF /\ ~SFprior([Q \in PointArrays |-> bivGaussMix_vect(params, Q)], xy_2d)
    THEN [val |-> NegInf, calls |-> <<"SFprior">>]
    ELSE LET c0 == IF priorDF THEN <<"SFprior">> ELSE <<>>
             erf == integration = "analyticApprox"
         IN  IF ~prior_bounds(params, params_l, params_u)
             THEN [val |-> NegInf, calls |-> c0 \o <<"prior_bounds">>]
             ELSE IF ~prior_multim(params)
             THEN [val |-> NegInf, calls |-> c0 \o <<"prior_bounds", "prior_multim">>]
             ELSE IF erf /\ ~prior_erfprecision(params, rngx_s, rngy_s)
             THEN [val |-> NegInf,
                   calls |-> c0 \o <<"prior_bounds", "prior_multim", "prior_erfprecision">>]
             ELSE [val |-> 0,
                   calls |-> c0 \o (IF erf
                       THEN <<"prior_bounds", "prior_multim", "prior_erfprecision">>
                       ELSE <<"prior_bounds", "prior_multim">>)]

\* GaussianEM.lnprior: the value returned and the tests evaluated, in order
lnprior(params) ==
    IF ~prior_bounds(params, params_l, params_u)
    THEN [val |-> NegInf, calls |-> <<"prior_bounds">>]
    ELSE IF ~prior_multim(params)
    THEN [val |-> NegInf, calls |-> <<"prior_bounds", "prior_multim">>]
    ELSE LET erf == integration = "analyticApprox"
             c3 == IF erf THEN <<"prior_bounds", "prior_multim", "prior_erfprecision">>
                          ELSE <<"prior_bounds", "prior_multim">>
         IN  IF erf /\ ~prior_erfprecision(params, rngx_s, rngy_s)
             THEN [val |-> NegInf, calls |-> c3]
             ELSE IF priorDF
             THEN LET prior == TRUE /\ SFprior([Q \in PointArrays |-> bivGaussMix_vect(params, Q)], xy_2d)
                  IN  IF ~prior THEN [val |-> NegInf, calls |-> Append(c3, "SFprior")]
                      ELSE [val |-> 0, calls |-> Append(c3, "SFprior")]
             ELSE [val |-> 0, calls |-> c3]

\* lnlike with the point term taken from the mixture without the measurement
\* covariance
lnlike_unconvolved(params, eig) ==
    LET P == XY(x_s, y_s)
        product == gmm_product_p(params, params_df, eig)
        model == IF priorDF THEN bivGaussMix_vect(product, P)
                            ELSE bivGaussMix_vect(params, P)
        contPoints == FSum([i \in 1..Len(model) |-> np_log(model[i])])
        contInteg ==
            IF priorDF
            THEN integrationRoutine([Q \in PointArrays |-> ArrMul(bivGaussMix_vect(params, Q),
                                                                  bivGaussMix_vect(params_df, Q))],
                                    product, NComp, rngx_s, rngy_s, xy_2d, integration)
            ELSE integrationRoutine([Q \in PointArrays |-> bivGaussMix_vect(params, Q)],
                                    params, NComp, rngx_s, rngy_s, xy_2d, integration)
    IN  [val |-> FSub(contPoints, contInteg),
         calls |-> IF priorDF
                   THEN <<"gmm_product_p", "error_convolution", "integrationRoutine">>
                   ELSE <<"error_convolution", "integrationRoutine">>,
         iter |-> IF runningL THEN iter_count + 1 ELSE iter_count]

\* GaussianEM.lnlike: lnL, the calls made and the new iter_count
lnlike(params, eig) ==
    LET P == XY(x_s, y_s)
        product == gmm_product_p(params, params_df, eig)
        model == IF priorDF THEN error_convolution(product, P, sig_xy_s)
                            ELSE error_convolution(params, P, sig_xy_s)
        contPoints == FSum([i \in 1..Len(model) |-> np_log(model[i])])
        contInteg ==
            IF priorDF
            THEN integrationRoutine([Q \in PointArrays |-> ArrMul(bivGaussMix_vect(params, Q),
                                                                  bivGaussMix_vect(params_df, Q))],
                                    product, NComp, rngx_s, rngy_s, xy_2d, integration)
            ELSE integrationRoutine([Q \in PointArrays |-> bivGaussMix_vect(params, Q)],
                                    params, NComp, rngx_s, rngy_s, xy_2d, integration)
    IN  Only({ [val |-> IF integ = ValueError THEN ValueError ELSE FSub(contPoints, integ),
                calls |-> IF priorDF
                          THEN <<"gmm_product_p", "error_convolution", "integrationRoutine">>
                          ELSE <<"error_convolution", "integrationRoutine">>,
                iter |-> IF runningL /\ integ # ValueError THEN iter_count + 1 ELSE iter_count]
               : integ \in {contInteg} })

\* lnprob with the likelihood evaluated whatever the prior says
lnprob_eager(params, eig) ==
    LET lp == lnprior(params)
        ll == lnlike(params, eig)
    IN  [val |-> FAdd(lp.val, ll.val), calls |-> lp.calls \o ll.calls, iter |-> ll.iter]

\* GaussianEM.lnprob
lnprob(params, eig) ==
    Only({ IF ~isfinite(lp.val)
           THEN [val |-> NegInf, calls |-> lp.calls, iter |-> iter_count]
           ELSE Only({ [val |-> IF ll.val = ValueError THEN ValueError ELSE FAdd(lp.val, ll.val),
                        calls |-> lp.calls \o ll.calls, iter |-> ll.iter]
                       : ll \in {lnlike(params, eig)} })
           : lp \in {lnprior(params)} })

\* GaussianEM.nll: lp = -self.lnprob(*args)
nll(params, eig) ==
    Only({ [val |-> IF lp.val = ValueError THEN ValueError ELSE FNeg(lp.val),
            calls |-> lp.calls, iter |-> lp.iter]
           : lp \in {lnprob(params, eig)} })

---------------------------------------------------------------------------
(* The public density call *)

\* GaussianEM.__call__ on an array of points P (params=None, components=None)
density(P) ==
    LET params == params_f
        GMMval0 == bivGaussMix_vect(params, P)
        notnan == [i \in DOMAIN P |-> ~isnan(P[i][1]) /\ ~isnan(P[i][2])]
        constraint == [i \in DOMAIN P |->
            /\ FGe(P[i][1], rngx[1]) /\ FLe(P[i][1], rngx[2])
            /\ FGe(P[i][2], rngy[1]) /\ FLe(P[i][2], rngy[2])]
        \* GMMval[~notnan] = np.nan
        GMMval == [i \in DOMAIN P |-> IF ~notnan[i] THEN NaN ELSE GMMval0[i]]
        \* GMMval[notnan][~constraint] = 0. : GMMval[notnan] is a new array (boolean
        \* indexing copies), the zeros are stored in that temporary
        kept == SelectSeq([i \in DOMAIN P |-> i], LAMBDA i : notnan[i])
        temporary == [k \in DOMAIN kept |-> IF ~constraint[kept[k]] THEN 0 ELSE GMMval[kept[k]]]
    IN  GMMval

\* no array passed to inverse2x2
NoMatrix == [shape |-> <<>>, at |-> <<>>]

---------------------------------------------------------------------------
(* State machine *)

\* bounds tables as initParams lays them out, one row repeated per component:
\* means at the edges of the scaled range, eigenvalues from the floor l_min (one
\* sixteenth here) to 30 times the width of the range, angle from 0 to pi,
\* weight from its floor to 10 * nstars
LowerRow == <<rngx_s[1], rngy_s[1], 1, 1, 0, 0>>
UpperRow == <<rngx_s[2], rngy_s[2], 30 * 16 * (rngx_s[2] - rngx_s[1]),
              30 * 16 * (rngy_s[2] - rngy_s[1]), 6, 20>>

\* rows a candidate table is built from
Rows == { <<-3, 0, 4, 16, 1, 1>>,
          <<0, 0, 4, 16, 1, 4>>,
          <<1, 0, 4, 4, 1, 1>>,
          <<2, 0, 16, 4, 2, 1>>,
          <<-6, 0, 4, 16, 1, 1>>,
          <<3, 0, 2, 16, 3, 1>>,
          <<4, 0, 4, 16, 6, 1>>,
          <<NaN, 0, 4, 16, 1, 1>> }

\* rows that fill a table beyond its second component
TailRow(j) == <<2 + j, 0, 4, 16, 1, 1>>

\* candidate tables; no two rows of a table have the same mean-x (the order
\* np.argsort gives to equal keys is not fixed by numpy)
Candidates == {t \in [1..NComp -> Rows \cup {TailRow(j) : j \in 3..NComp}] :
                  /\ \A j \in 1..NComp : IF j > 2 THEN t[j] = TailRow(j) ELSE t[j] \in Rows
                  /\ \A i, j \in 1..NComp : i # j => t[i][MX] # t[j][MX]}

\* fitted tables (params_f, real-world units)
FittedTables ==
    { [j \in 1..NComp |-> IF j = NComp THEN <<5, 0, 16, 16, 1, 4>> ELSE <<2 * j - 5, 0, 4, 16, 1, 1>>],
      [j \in 1..NComp |-> IF j = NComp THEN <<4, 5, 4, 16, 3, 4>> ELSE <<2 * j - 5, 0, 4, 16, 2, 1>>] }

\* tables the mixture evaluators are compared on: eigenvalues positive, axes
\* rotated, weights unequal
ConvTables == {t \in Candidates :
                  /\ t[1] \in {<<-3, 0, 4, 16, 1, 1>>, <<2, 0, 16, 4, 2, 1>>, <<3, 0, 2, 16, 3, 1>>}
                  /\ t[2] \in {<<0, 0, 4, 16, 1, 4>>, <<4, 0, 4, 16, 6, 1>>}}

\* evaluation points: inside, on the boundary, outside, NaN
EvalPoints == { <<0, 0>>, <<6, 0>>, <<7, 0>>, <<4, 7>>, <<NaN, 0>> }

\* the float error settings numpy starts with
DefaultSettings == [invalid |-> "warn", divide |-> "warn", over |-> "warn"]

\* no call of optimizeParams in progress
NoSettings == [invalid |-> "", divide |-> "", over |-> ""]
NoFrame == [pc |-> "idle", method |-> "", init |-> "", a |-> 0, params |-> <<>>,
            saved |-> NoSettings, nfev |-> 0, paramsOP |-> <<>>, result |-> <<>>]

\* a constructed model whose integration attribute, bounds tables and flags are
\* set, with a candidate table about to be evaluated
Init ==
    /\ integration \in Integrations
    /\ priorDF \in BOOLEAN
    /\ runningL \in BOOLEAN
    /\ params_l = [j \in 1..NComp |-> LowerRow]
    /\ params_u = [j \in 1..NComp |-> UpperRow]
    /\ params_f = <<>>
    /\ iter_count = 0
    /\ cand \in Candidates
    /\ op = "init"
    /\ ret = 0
    /\ ok = TRUE
    /\ calls = <<>>
    /\ pts = <<>>
    /\ out = <<>>
    /\ params_f_scaled = <<>>
    /\ seterr = DefaultSettings
    /\ frame = NoFrame
    /\ raised = "none"
    /\ evals = 0
    /\ matrix = NoMatrix

Config == <<integration, priorDF, runningL, params_l, params_u, params_f, params_f_scaled, seterr>>

\* the call of optimizeParams in progress, the exception that left it, and the
\* number of likelihood evaluations since optimize last reset iter_count
Driver == <<frame, raised, evals>>

Lnprior ==
    \E r \in {lnprior(cand)} :
        /\ op' = "lnprior"
        /\ ret' = r.val
        /\ calls' = r.calls
        /\ UNCHANGED <<Config, Driver, iter_count, cand, ok, pts, matrix, out>>

\* the eigen-decomposition is reached only with a prior density
EigFor == IF priorDF THEN EigOutcomes ELSE {[swap |-> FALSE, s1 |-> 1, s2 |-> 1]}

Lnlike ==
    /\ iter_count < MaxIter
    /\ \E eig \in EigFor :
        \E r \in {lnlike(cand, eig)} :
            /\ op' = "lnlike"
            /\ ret' = r.val
            /\ calls' = r.calls
            /\ iter_count' = r.iter
            /\ UNCHANGED <<Config, Driver, cand, ok, pts, matrix, out>>

Lnprob ==
    /\ iter_count < MaxIter
    /\ \E eig \in EigFor :
        \E r \in {lnprob(cand, eig)} :
            /\ op' = "lnprob"
            /\ ret' = r.val
            /\ calls' = r.calls
            /\ iter_count' = r.iter
            /\ UNCHANGED <<Config, Driver, cand, ok, pts, matrix, out>>

Nll ==
    /\ iter_count < MaxIter
    /\ \E eig \in EigFor :
        \E r \in {nll(cand, eig)} :
            /\ op' = "nll"
            /\ ret' = r.val
            /\ calls' = r.calls
            /\ iter_count' = r.iter
            /\ UNCHANGED <<Config, Driver, cand, ok, pts, matrix, out>>

PriorBounds ==
    /\ op' = "prior_bounds"
    /\ ok' = prior_bounds(cand, params_l, params_u)
    /\ UNCHANGED <<Config, Driver, iter_count, cand, ret, calls, pts, matrix, out>>

PriorMultim ==
    /\ op' = "prior_multim"
    /\ ok' = prior_multim(cand)
    /\ UNCHANGED <<Config, Driver, iter_count, cand, ret, calls, pts, matrix, out>>

PriorErfprecision ==
    /\ op' = "prior_erfprecision"
    /\ ok' = prior_erfprecision(cand, rngx_s, rngy_s)
    /\ UNCHANGED <<Config, Driver, iter_count, cand, ret, calls, pts, matrix, out>>

SFpriorCall ==
    /\ op' = "SFprior"
    /\ ok' = SFprior([Q \in PointArrays |-> bivGaussMix_vect(cand, Q)], xy_2d)
    /\ UNCHANGED <<Config, Driver, iter_count, cand, ret, calls, pts, matrix, out>>

Next ==
    \/ Lnprior
    \/ Lnlike
    \/ Lnprob
    \/ Nll

Spec == Init /\ [][Next]_vars

(* The tests of the prior battery applied to candidate tables *)

InitPriors ==
    /\ integration \in Integrations
    /\ priorDF \in BOOLEAN
    /\ runningL = FALSE
    /\ params_l = [j \in 1..NComp |-> LowerRow]
    /\ params_u = [j \in 1..NComp |-> UpperRow]
    /\ params_f = <<>>
    /\ iter_count = 0
    /\ cand \in Candidates
    /\ op = "init"
    /\ ret = 0
    /\ ok = TRUE
    /\ calls = <<>>
    /\ pts = <<>>
    /\ out = <<>>
    /\ params_f_scaled = <<>>
    /\ seterr = DefaultSettings
    /\ frame = NoFrame
    /\ raised = "none"
    /\ evals = 0
    /\ matrix = NoMatrix

NextPriors ==
    \/ Lnprior
    \/ PriorBounds
    \/ PriorMultim
    \/ PriorErfprecision
    \/ SFpriorCall

SpecPriors == InitPriors /\ [][NextPriors]_vars

(* The density call on a fitted model *)

\* shape of np.array([np.diag(a) for a in params[:,2:4]]) for a table of n
\* rows: n matrices, or the array of an empty list
DiagStackShape(n) == IF n = 0 THEN <<0>> ELSE <<n, 2, 2>>

\* shape of rotation(params[:,4]).transpose(0,2,1) for a table of n rows
RotationShape(n) == <<n, 2, 2>>

\* np.matmul(a, b) raises ValueError unless the last axis of a is as long as
\* the last but one axis of b (the only axis of a one-dimensional b)
MatmulFits(sa, sb) ==
    sa[Len(sa)] = IF Len(sb) = 1 THEN sb[1] ELSE sb[Len(sb) - 1]

InitDensity ==
    /\ integration = "trapezium"
    /\ priorDF = FALSE
    /\ runningL = FALSE
    /\ params_l = [j \in 1..NComp |-> LowerRow]
    /\ params_u = [j \in 1..NComp |-> UpperRow]
    /\ params_f \in FittedTables
    /\ iter_count = 0
    /\ cand \in ConvTables \cup {<<>>}
    /\ op = "init"
    /\ ret = 0
    /\ ok = TRUE
    /\ calls = <<>>
    /\ pts \in [1..NPts -> EvalPoints]
    /\ out = <<>>
    /\ params_f_scaled = <<>>
    /\ seterr = DefaultSettings
    /\ frame = NoFrame
    /\ raised = "none"
    /\ evals = 0
    /\ matrix = NoMatrix

Call ==
    /\ op' = "call"
    /\ out' = density(pts)
    /\ UNCHANGED <<Config, Driver, iter_count, cand, ret, ok, calls, pts, matrix>>

\* error_convolution called on the table cand and the points pts, with the
\* measurement covariance of every point zero
ErrorConvolution ==
    /\ op' = "error_convolution"
    /\ IF MatmulFits(DiagStackShape(Len(cand)), RotationShape(Len(cand)))
       THEN /\ raised' = "none"
            /\ out' = error_convolution(cand, pts, [i \in 1..Len(pts) |-> diag(0, 0)])
       ELSE /\ raised' = "ValueError"
            /\ out' = <<>>
    /\ UNCHANGED <<Config, frame, evals, iter_count, cand, ret, ok, calls, pts, matrix>>

\* bivGaussMix_vect called on the table cand and the points pts
BivGaussMixVect ==
    /\ op' = "bivGaussMix_vect"
    /\ IF MatmulFits(DiagStackShape(Len(cand)), RotationShape(Len(cand)))
       THEN /\ raised' = "none"
            /\ out' = bivGaussMix_vect(cand, pts)
       ELSE /\ raised' = "ValueError"
            /\ out' = <<>>
    /\ UNCHANGED <<Config, frame, evals, iter_count, cand, ret, ok, calls, pts, matrix>>

NextDensity ==
    \/ Call
    \/ ErrorConvolution
    \/ BivGaussMixVect

SpecDensity == InitDensity /\ [][NextDensity]_vars

---------------------------------------------------------------------------
(* The optimization driver: optimizeParams and optimize *)

\* the model is built with runscaling=True: the observations, the range and the
\* measurement covariances above are the scaled ones
runscaling == TRUE

\* GaussianEM.unscaleParams for one row; eig is what np.linalg.eig returned for
\* the covariance of the row. The observation set has sx = sy, so that the
\* unscaled covariance has the eigenvectors (cos, -sin), (sin, cos) of the row
\* and the eigenvalues sx * sy * l1, sx * sy * l2
UnscaleRow(row, eig) ==
    LET c == cos5(row[TH])
        s == sin5(row[TH])
        \* eigvals and the rows of eigvecs (its columns are the eigenvectors)
        eigvals == IF eig.swap THEN <<sx * sy * row[L2], sx * sy * row[L1]>>
                               ELSE <<sx * sy * row[L1], sx * sy * row[L2]>>
        eigvecs == IF eig.swap THEN << <<eig.s2 * s, eig.s1 * c>>, <<eig.s2 * c, -eig.s1 * s>> >>
                               ELSE << <<eig.s1 * c, eig.s2 * s>>, <<-eig.s1 * s, eig.s2 * c>> >>
        \* i = eigvals.argsort(axis=1); eigvecs = eigvecs[j, i, :]; eigvals = eigvals[j, i]
        i == IF eigvals[1] <= eigvals[2] THEN <<1, 2>> ELSE <<2, 1>>
        th == arctan2(eigvecs[i[1]][2], eigvecs[i[1]][1])
    IN  <<row[MX] * sx + mux, row[MY] * sy + muy, eigvals[i[1]], eigvals[i[2]], th,
          IF priorDF THEN row[WT] * sx * sy ELSE row[WT]>>

unscaleParams(params_in, eig) == [j \in 1..Len(params_in) |-> UnscaleRow(params_in[j], eig)]

\* GaussianEM.scaleParams for one row; eig is what np.linalg.eig returned for
\* the scaled covariance of the row (sx = sy: eigenvectors (cos, -sin),
\* (sin, cos) of the row, eigenvalues l1 / (sx * sy), l2 / (sx * sy))
ScaleRow(row, eig) ==
    LET c == cos5(row[TH])
        s == sin5(row[TH])
        eigvals == IF eig.swap THEN <<row[L2] \div (sx * sy), row[L1] \div (sx * sy)>>
                               ELSE <<row[L1] \div (sx * sy), row[L2] \div (sx * sy)>>
        eigvecs == IF eig.swap THEN << <<eig.s2 * s, eig.s1 * c>>, <<eig.s2 * c, -eig.s1 * s>> >>
                               ELSE << <<eig.s1 * c, eig.s2 * s>>, <<-eig.s1 * s, eig.s2 * c>> >>
        \* i = eigvals.argsort(axis=1); eigvecs = eigvecs[j, i, :]; eigvals = eigvals[j, i]
        i == IF eigvals[1] <= eigvals[2] THEN <<1, 2>> ELSE <<2, 1>>
        th == arctan2(eigvecs[i[1]][2], eigvecs[i[1]][1])
    IN  <<(row[MX] - mux) \div sx, (row[MY] - muy) \div sy, eigvals[i[1]], eigvals[i[2]], th,
          IF priorDF THEN row[WT] \div (sx * sy) ELSE row[WT]>>

scaleParams(params_in, eig) == [j \in 1..Len(params_in) |-> ScaleRow(params_in[j], eig)]

\* the method argument of optimizeParams: the four names optimize knows, a
\* callable, and a name it does not know
KnownMethods == {"Stoch", "Powell", "Anneal", "emceeBall"}
Methods == KnownMethods \cup {"callable", "Newton"}

\* the init argument of optimizeParams
InitModes == {"random", "reset"}

\* tables initParams may draw as starting points
StartTables ==
    { [j \in 1..NComp |-> IF j = 1 THEN <<-3, 0, 4, 16, 1, 1>>
                          ELSE IF j = 2 THEN <<0, 0, 4, 16, 1, 1>> ELSE TailRow(j)],
      [j \in 1..NComp |-> IF j = 1 THEN <<-3, 0, 4, 16, 1, 1>>
                          ELSE IF j = 2 THEN <<0, 0, 4, 16, 1, 4>> ELSE TailRow(j)],
      [j \in 1..NComp |-> IF j = 1 THEN <<2, 0, 16, 4, 2, 1>>
                          ELSE IF j = 2 THEN <<0, 0, 4, 16, 1, 1>> ELSE TailRow(j)] }

\* tables a minimizer may return
ResultTables ==
    { [j \in 1..NComp |-> IF j = 1 THEN <<-3, 0, 4, 16, 1, 1>>
                          ELSE IF j = 2 THEN <<0, 0, 4, 16, 1, 1>> ELSE TailRow(j)],
      [j \in 1..NComp |-> IF j = 1 THEN <<-3, 0, 16, 4, 2, 1>>
                          ELSE IF j = 2 THEN <<1, 0, 4, 16, 1, 4>> ELSE TailRow(j)] }

\* float error settings a caller may have in force
EntrySettings == { DefaultSettings,
                   [invalid |-> "raise", divide |-> "warn", over |-> "print"] }

Ignore == [invalid |-> "ignore", divide |-> "ignore", over |-> "ignore"]

\* lnlike was evaluated during a call that made these calls
Evaluated(c) == \E k \in 1..Len(c) : c[k] = "error_convolution"

\* optimizeParams is called: finite = False; a = 0
OptimizeParams ==
    /\ frame.pc = "idle"
    /\ \E method \in Methods, init \in InitModes :
        frame' = [NoFrame EXCEPT !.pc = "loop", !.method = method, !.init = init]
    /\ op' = "optimizeParams"
    /\ raised' = "none"
    /\ UNCHANGED <<Config, iter_count, cand, ret, ok, calls, pts, matrix, out, evals>>

\* one pass of the loop "while not finite" of optimizeParams
Attempt ==
    /\ frame.pc = "loop"
    /\ op' = "attempt"
    /\ IF frame.init = "reset" /\ params_f_scaled = <<>>
       THEN \* params = self.params_f_scaled, never assigned: params.shape fails
            /\ raised' = "AttributeError"
            /\ frame' = [frame EXCEPT !.pc = "raised"]
            /\ UNCHANGED <<iter_count, cand, ret, calls, evals>>
       ELSE \E params \in (IF frame.init = "reset" THEN {params_f_scaled} ELSE StartTables) :
            \E eig \in EigFor :
            \E lnp \in {lnprob(params, eig)} :
                /\ cand' = params
                /\ ret' = lnp.val
                /\ calls' = lnp.calls
                /\ iter_count' = lnp.iter
                /\ evals' = IF Evaluated(lnp.calls) THEN evals + 1 ELSE evals
                /\ IF lnp.val = ValueError
                   THEN /\ raised' = "ValueError: No integration routine"
                        /\ frame' = [frame EXCEPT !.pc = "raised", !.params = params]
                   ELSE IF (frame.a + 1) % 3 = 0
                   THEN /\ raised' = "ValueError: Couldn't initialise good parameters"
                        /\ frame' = [frame EXCEPT !.pc = "raised", !.params = params, !.a = @ + 1]
                   ELSE /\ raised' = "none"
                        /\ frame' = [frame EXCEPT !.pc = IF isfinite(lnp.val) THEN "start" ELSE "loop",
                                                  !.params = params, !.a = @ + 1]
    /\ UNCHANGED <<Config, ok, pts, matrix, out>>

\* optimizeParams calls optimize, which runs up to the call of the minimizer.
\* (With runningL, optimizeParams first prints self.lnprob(params); optimize
\* then sets iter_count to 0, so that evaluation leaves no trace.)
Optimize ==
    /\ frame.pc = "start"
    /\ op' = "optimize"
    /\ seterr' = Ignore
    /\ IF frame.method \notin KnownMethods /\ frame.method # "callable"
       THEN /\ raised' = "ValueError: Name of method not recognised."
            /\ frame' = [frame EXCEPT !.pc = "raised", !.saved = seterr]
            /\ iter_count' = 0
            /\ evals' = 0
            /\ UNCHANGED <<cand, ret, calls>>
       ELSE \E eig \in EigFor :
            \E test \in {nll(frame.params, eig)} :
                /\ cand' = frame.params
                /\ ret' = test.val
                /\ calls' = test.calls
                /\ iter_count' = IF runningL /\ Evaluated(test.calls) THEN 1 ELSE 0
                /\ evals' = IF Evaluated(test.calls) THEN 1 ELSE 0
                /\ raised' = "none"
                /\ frame' = [frame EXCEPT !.pc = "minimize", !.saved = seterr]
    /\ UNCHANGED <<integration, priorDF, runningL, params_l, params_u, params_f, params_f_scaled,
                   ok, pts, matrix, out>>

\* the minimizer evaluates the objective at a table of its choice
MinimizerEval ==
    /\ frame.pc = "minimize"
    /\ frame.nfev < MaxEvals
    /\ op' = "nll"
    /\ \E params \in StartTables :
       \E eig \in EigFor :
       \E r \in {nll(params, eig)} :
            /\ cand' = params
            /\ ret' = r.val
            /\ calls' = r.calls
            /\ iter_count' = r.iter
            /\ evals' = IF Evaluated(r.calls) THEN evals + 1 ELSE evals
    /\ frame' = [frame EXCEPT !.nfev = @ + 1]
    /\ UNCHANGED <<Config, raised, ok, pts, matrix, out>>

\* the minimizer raises
MinimizerRaise ==
    /\ frame.pc = "minimize"
    /\ op' = "minimizer raises"
    /\ raised' = "MinimizerError"
    /\ frame' = [frame EXCEPT !.pc = "raised"]
    /\ UNCHANGED <<Config, iter_count, cand, ret, ok, calls, pts, matrix, out, evals>>

\* the minimizer returns its result; optimize restores the settings and returns
OptimizeReturn ==
    /\ frame.pc = "minimize"
    /\ op' = "optimize returns"
    /\ \E result \in ResultTables : frame' = [frame EXCEPT !.pc = "optimized", !.paramsOP = result]
    /\ seterr' = frame.saved
    /\ UNCHANGED <<integration, priorDF, runningL, params_l, params_u, params_f, params_f_scaled,
                   iter_count, cand, ret, ok, calls, pts, matrix, out, raised, evals>>

\* the rest of optimizeParams, from lnlikeOP = self.lnlike(paramsOP) to return
OptimizeParamsReturn ==
    /\ frame.pc = "optimized"
    /\ op' = "optimizeParams returns"
    /\ \E like_eig \in EigFor :
       \E lnlikeOP \in {lnlike(frame.paramsOP, like_eig)} :
       \E lnp \in {IF runningL THEN lnprob(frame.paramsOP, like_eig) ELSE lnlikeOP} :
       \E eig \in EigOutcomes :
            /\ cand' = frame.paramsOP
            /\ ret' = lnlikeOP.val
            /\ calls' = lnlikeOP.calls
            /\ iter_count' = IF runningL
                             THEN iter_count + 1 + (IF Evaluated(lnp.calls) THEN 1 ELSE 0)
                             ELSE iter_count
            /\ evals' = IF runningL
                        THEN evals + 1 + (IF Evaluated(lnp.calls) THEN 1 ELSE 0)
                        ELSE evals + 1
            /\ IF frame.method # "emceeBall"
               THEN /\ params_f_scaled' = frame.paramsOP
                    /\ params_f' = IF runscaling THEN unscaleParams(frame.paramsOP, eig)
                                                 ELSE frame.paramsOP
                    /\ frame' = [frame EXCEPT !.pc = "returned", !.result = params_f']
               ELSE /\ frame' = [frame EXCEPT !.pc = "returned", !.result = frame.paramsOP]
                    /\ UNCHANGED <<params_f, params_f_scaled>>
    /\ UNCHANGED <<integration, priorDF, runningL, params_l, params_u, seterr,
                   ok, pts, matrix, out, raised>>

\* what np.linalg.eig returned in the fit that produced params_f
FirstFitEig == [swap |-> FALSE, s1 |-> 1, s2 |-> 1]

\* a constructed model without a prior density, not yet fitted or fitted once
\* before, whose integration attribute may have been set to a name
\* integrationRoutine does not know
InitOptimize ==
    /\ integration \in {"trapezium", "analyticApprox", "romberg"}
    /\ priorDF = FALSE
    /\ runningL \in BOOLEAN
    /\ params_l = [j \in 1..NComp |-> LowerRow]
    /\ params_u = [j \in 1..NComp |-> UpperRow]
    /\ params_f_scaled \in {<<>>} \cup ResultTables
    /\ params_f = IF params_f_scaled = <<>> THEN <<>>
                  ELSE unscaleParams(params_f_scaled, FirstFitEig)
    /\ iter_count = 0
    /\ cand = <<>>
    /\ op = "init"
    /\ ret = 0
    /\ ok = TRUE
    /\ calls = <<>>
    /\ pts = <<>>
    /\ out = <<>>
    /\ seterr \in EntrySettings
    /\ frame = NoFrame
    /\ raised = "none"
    /\ evals = 0
    /\ matrix = NoMatrix

NextOptimize ==
    \/ OptimizeParams
    \/ Attempt
    \/ Optimize
    \/ MinimizerEval
    \/ MinimizerRaise
    \/ OptimizeReturn
    \/ OptimizeParamsReturn

SpecOptimize == InitOptimize /\ [][NextOptimize]_vars

---------------------------------------------------------------------------

(* Stacks of 2x2 matrices as arrays of any number of axes *)

\* the index tuples (0-based) of an array of the given shape
Indices(shape) == {idx \in [1..Len(shape) -> 0..1] : \A k \in 1..Len(shape) : idx[k] < shape[k]}

\* the exact quotient n / d
Frac(n, d) == <<n, d>>

\* matrix[..., i, j]: the array of the (i, j) entries, of the leading shape
Entry(arr, i, j) ==
    LET lead == SubSeq(arr.shape, 1, Len(arr.shape) - 2)
    IN  [shape |-> lead, at |-> [idx \in Indices(lead) |-> arr.at[idx \o <<i, j>>]]]

\* np.array([[a, b], [c, d]]) of four arrays of one shape: the two new axes
\* come first
np_array(rows) ==
    LET lead == rows[1][1].shape
        shape == <<2, 2>> \o lead
    IN  [shape |-> shape,
         at |-> [idx \in Indices(shape) |->
                    rows[idx[1] + 1][idx[2] + 1].at[SubSeq(idx, 3, Len(idx))]]]

\* arr.transpose(*axes) raises ValueError unless there is one axis number per
\* axis of arr
TransposeFits(arr, axes) == Len(axes) = Len(arr.shape)

\* arr.transpose(*axes): axis k of the result is axis axes[k] of arr
np_transpose(arr, axes) ==
    LET n == Len(axes)
        shape == [k \in 1..n |-> arr.shape[axes[k] + 1]]
    IN  [shape |-> shape,
         at |-> [idx \in Indices(shape) |->
                    arr.at[[p \in 1..n |-> idx[CHOOSE k \in 1..n : axes[k] + 1 = p]]]]]

\* inverse2x2 on an array of shape (..., 2, 2) with determinants not zero
inverse2x2_nd(m) ==
    LET m00 == Entry(m, 0, 0)
        m01 == Entry(m, 0, 1)
        m10 == Entry(m, 1, 0)
        m11 == Entry(m, 1, 1)
        lead == m00.shape
        det == [shape |-> lead,
                at |-> [idx \in Indices(lead) |->
                           m00.at[idx] * m11.at[idx] - m01.at[idx] * m10.at[idx]]]
        over(a, sign) == [shape |-> lead,
                          at |-> [idx \in Indices(lead) |-> Frac(sign * a.at[idx], det.at[idx])]]
        nested == np_array(<< <<over(m11, 1), over(m01, -1)>>,
                              <<over(m10, -1), over(m00, 1)>> >>)
    IN  IF ~TransposeFits(nested, <<2, 3, 0, 1>>)
        THEN [raised |-> TRUE, inv |-> NoMatrix, det |-> det]
        ELSE [raised |-> FALSE, inv |-> np_transpose(nested, <<2, 3, 0, 1>>), det |-> det]

---------------------------------------------------------------------------

(* The array functions applied to drawn arguments *)

\* 2x2 matrices with determinants 5 and -2
Mats == { << <<2, 1>>, <<3, 4>> >>, << <<1, 2>>, <<3, 4>> >> }

\* leading shapes: a single matrix, stacks along one axis, stacks along two
LeadShapes == { <<>>, <<1>>, <<2>>, <<1, 1>>, <<1, 2>>, <<2, 1>>, <<2, 2>> }

\* the arrays of shape lead + (2, 2) whose matrices are taken from Mats
StacksOf(lead) ==
    { [shape |-> lead \o <<2, 2>>,
       at |-> [idx \in Indices(lead \o <<2, 2>>) |->
                  f[SubSeq(idx, 1, Len(lead))][idx[Len(lead) + 1] + 1][idx[Len(lead) + 2] + 1]]]
      : f \in [Indices(lead) -> Mats] }

Stacks == UNION {StacksOf(lead) : lead \in LeadShapes}

\* one-component tables centred in the scaled range, whose standard deviations
\* (at most 1) are at most a sixth of the distance to each edge
CentredTables ==
    { << <<0, 0, l1, 16, th, w>> >> : l1 \in {1, 4}, th \in {0, 1}, w \in {1, 4, 20} }

Inverse2x2 ==
    /\ op' = "inverse2x2"
    /\ \E r \in {inverse2x2_nd(matrix)} :
        /\ raised' = IF r.raised THEN "ValueError" ELSE "none"
        /\ out' = r
    /\ UNCHANGED <<Config, iter_count, cand, ret, ok, calls, pts, matrix, frame, evals>>

\* integrationRoutine on the table cand and its mixture function
IntegrationRoutine ==
    /\ op' = "integrationRoutine"
    /\ ret' = integrationRoutine([Q \in PointArrays |-> bivGaussMix_vect(cand, Q)], cand, Len(cand),
                                 rngx_s, rngy_s, xy_2d, integration)
    /\ UNCHANGED <<Config, Driver, iter_count, cand, ok, calls, pts, matrix, out>>

\* scaleParams on the table cand
ScaleParams ==
    /\ op' = "scaleParams"
    /\ \E eig \in EigOutcomes : out' = scaleParams(cand, eig)
    /\ UNCHANGED <<Config, Driver, iter_count, cand, ret, ok, calls, pts, matrix>>

\* unscaleParams on the table scaleParams returned
UnscaleParams ==
    /\ op = "scaleParams"
    /\ op' = "unscaleParams"
    /\ \E eig \in EigOutcomes : out' = unscaleParams(out, eig)
    /\ UNCHANGED <<Config, Driver, iter_count, cand, ret, ok, calls, pts, matrix>>

InitFunctions ==
    /\ integration \in Integrations
    /\ priorDF = FALSE
    /\ runningL = FALSE
    /\ params_l = [j \in 1..NComp |-> LowerRow]
    /\ params_u = [j \in 1..NComp |-> UpperRow]
    /\ params_f = <<>>
    /\ iter_count = 0
    /\ cand \in CentredTables \cup ConvTables
    /\ op = "init"
    /\ ret = 0
    /\ ok = TRUE
    /\ calls = <<>>
    /\ pts = <<>>
    /\ out = <<>>
    /\ params_f_scaled = <<>>
    /\ seterr = DefaultSettings
    /\ frame = NoFrame
    /\ raised = "none"
    /\ evals = 0
    /\ matrix \in Stacks

NextFunctions ==
    \/ Inverse2x2
    \/ IntegrationRoutine
    \/ ScaleParams
    \/ UnscaleParams

SpecFunctions == InitFunctions /\ [][NextFunctions]_vars

---------------------------------------------------------------------------

(* Which arrays a call writes in place.                                    *)
(* A function body is read as the list of its array statements: New(d)     *)
(* binds the name d to a freshly allocated array (arithmetic, np.array,    *)
(* np.stack, fancy indexing, .copy()), View(d, s) binds d to the memory of *)
(* s (assignment, argument passing, basic slicing, reshape, transpose,     *)
(* np.newaxis), Write(d) stores into the memory of d (d[...] = v, d *= v,  *)
(* d.sort(), out=d). A name is the tuple <<function, variable>>; the       *)
(* arrays that exist before the call have names of length one.             *)

New(d) == [k |-> "new", d |-> d, s |-> <<>>]
View(d, s) == [k |-> "view", d |-> d, s |-> s]
Write(d) == [k |-> "write", d |-> d, s |-> <<>>]

\* d = s without a copy
np_copy_none(d, s) == View(d, s)

\* d = s.copy()
np_copy(d, s) == New(d)

\* the arrays that exist before a call: the argument of the call and the
\* arrays the model object holds; each is its own memory, number 0
Externals == { <<"params">>, <<"self.params_l">>, <<"self.params_u">>, <<"self.params_df">>,
               <<"self.x_s">>, <<"self.y_s">>, <<"self.sig_xy_s">>, <<"self.x_2d">>,
               <<"self.y_2d">>, <<"Xsf">>, <<"df_params">> }

\* the bindings before a call: pairs <<name, memory>>
Env0 == { <<n, <<n, 0>> >> : n \in Externals }

\* the memory a name is bound to
Memory(env, n) == (CHOOSE b \in env : b[1] = n)[2]

\* the bindings after name d is bound to memory mem
Bind(env, d, mem) == { b \in env : b[1] # d } \cup { <<d, mem>> }

\* one statement: st is statement number i, m the bindings of names to
\* memories (env) and the memories written so far; the array allocated by
\* statement i is memory <<name, i>>
Step(st, i, m) ==
    CASE st.k = "new" -> [env |-> Bind(m.env, st.d, <<st.d, i>>), written |-> m.written]
      [] st.k = "view" -> [env |-> Bind(m.env, st.d, Memory(m.env, st.s)), written |-> m.written]
      [] st.k = "write" -> [env |-> m.env, written |-> m.written \cup {Memory(m.env, st.d)}]

\* the statements stmts[lo..hi] in order (the range is halved to keep the
\* evaluation shallow)
RECURSIVE RunRange(_, _, _, _)
RunRange(stmts, lo, hi, m) ==
    IF lo > hi THEN m
    ELSE IF lo = hi THEN Step(stmts[lo], lo, m)
    ELSE LET mid == (lo + hi) \div 2
         IN  Only({ RunRange(stmts, mid + 1, hi, first) : first \in {RunRange(stmts, lo, mid, m)} })

Written(stmts) == RunRange(stmts, 1, Len(stmts), [env |-> Env0, written |-> {}]).written

\* sigma = np.array([np.diag(a) for a in params[:,2:4]]); R = rotation(...);
\* sigma = np.matmul(R, np.matmul(sigma, R.transpose(0,2,1))), in function f
sigma_stmts(f, sigma) ==
    << New(<<f, sigma>>), New(<<f, "R">>), View(<<f, "R">>, <<f, "R">>), New(<<f, sigma>>) >>

\* the body of scaleParams and of unscaleParams (which differ in the values
\* stored, not in where they are stored), called on the array arg
scaling_stmts(f, arg, withDF) ==
    << View(<<f, "params_in">>, arg),
       np_copy(<<f, "params">>, <<f, "params_in">>),
       Write(<<f, "params">>) >>
    \o sigma_stmts(f, "sigma")
    \o << Write(<<f, "sigma">>), Write(<<f, "sigma">>),
          New(<<f, "eigvals">>), New(<<f, "eigvecs">>),
          New(<<f, "i">>), New(<<f, "j">>),
          New(<<f, "eigvecs">>), New(<<f, "eigvals">>),
          Write(<<f, "params">>),
          New(<<f, "th">>),
          Write(<<f, "params">>) >>
    \o (IF withDF THEN << Write(<<f, "params">>) >> ELSE << >>)

scaleParams_stmts(arg) == scaling_stmts("scaleParams", arg, priorDF)

unscaleParams_stmts(arg) == scaling_stmts("unscaleParams", arg, priorDF)

\* calc_nlnP_grad_pilogit_NIW(params, Xsf, NIWprior, df_params)
calc_nlnP_grad_pilogit_NIW_stmts(arg) ==
    LET f == "calc_nlnP_grad_pilogit_NIW"
    IN  << View(<<f, "params">>, arg),
           \* params = np.reshape(params, (-1,6))
           View(<<f, "params">>, <<f, "params">>),
           \* params[:,2:4] = np.abs(params[:,2:4])
           New(<<f, "abs">>), Write(<<f, "params">>),
           New(<<f, "df_idx">>), New(<<f, "sf_idx">>),
           New(<<f, "e_alpha">>), New(<<f, "p">>), New(<<f, "corr">>), New(<<f, "S_sf">>),
           New(<<f, "Sinv_sf">>), New(<<f, "Sdet_sf">>),
           New(<<f, "delta_sf">>), New(<<f, "Sinv_sf_delta">>),
           New(<<f, "e_alpha_pi">>), New(<<f, "p_pi">>), New(<<f, "pi">>),
           New(<<f, "corr">>), New(<<f, "S_df">>), New(<<f, "Sinv_sum">>), New(<<f, "Sdet_sum">>),
           New(<<f, "Sinv_sum_delta">>), New(<<f, "m_ij">>), New(<<f, "m_i">>),
           New(<<f, "delta_mumu">>), New(<<f, "I_jl">>),
           New(<<f, "delta_mumu0">>), New(<<f, "Prior">>), New(<<f, "Sinv_delta_mumu0">>),
           New(<<f, "gradPi">>), New(<<f, "gradmu">>), New(<<f, "gradS">>),
           \* grad = np.zeros(...); grad[:,:2] = ...; ...; grad[:,5] = ...
           New(<<f, "grad">>), Write(<<f, "grad">>), Write(<<f, "grad">>), Write(<<f, "grad">>),
           Write(<<f, "grad">>), Write(<<f, "grad">>),
           \* -grad.flatten()
           New(<<f, "result">>) >>

\* bivGaussMix_vect(params, x, y), params bound to the array arg
bivGaussMix_vect_stmts(arg, xs, ys) ==
    LET f == "bivGaussMix_vect"
    IN  << View(<<f, "params">>, arg), View(<<f, "x">>, xs), View(<<f, "y">>, ys),
           New(<<f, "X">>), View(<<f, "mu">>, <<f, "params">>) >>
        \o sigma_stmts(f, "sigma")
        \o << View(<<f, "weight">>, <<f, "params">>),
              New(<<f, "inv_cov">>), New(<<f, "X">>),
              View(<<f, "X_ext">>, <<f, "X">>), View(<<f, "inv_cov">>, <<f, "inv_cov">>),
              New(<<f, "X_cov">>), New(<<f, "X_cov">>), New(<<f, "X_cov_X">>), New(<<f, "X_cov_X">>),
              New(<<f, "e">>), New(<<f, "det_cov">>), New(<<f, "norm">>), New(<<f, "p">>),
              View(<<f, "p">>, <<f, "p">>) >>

\* inverse2x2(matrix): det and inv are new arrays
inverse2x2_stmts(f, arg) ==
    << View(<<f, "matrix">>, arg), New(<<f, "det">>), New(<<f, "inv">>),
       View(<<f, "inv">>, <<f, "inv">>) >>

\* error_convolution(params, x, y, sig_xy)
error_convolution_stmts(arg) ==
    LET f == "error_convolution"
    IN  << View(<<f, "params">>, arg), View(<<f, "x">>, <<"self.x_s">>),
           View(<<f, "y">>, <<"self.y_s">>), View(<<f, "sig_xy">>, <<"self.sig_xy_s">>),
           New(<<f, "X">>), View(<<f, "mu">>, <<f, "params">>) >>
        \o sigma_stmts(f, "sigma")
        \o << View(<<f, "weight">>, <<f, "params">>),
              View(<<f, "sigma">>, <<f, "sigma">>), View(<<f, "sig_xy">>, <<f, "sig_xy">>),
              New(<<f, "sig_product">>),
              View(<<f, "mu">>, <<f, "mu">>), View(<<f, "X">>, <<f, "X">>),
              New(<<f, "mu_product">>) >>
        \o inverse2x2_stmts("inverse2x2", <<f, "sig_product">>)
        \o << New(<<f, "exponent">>), New(<<f, "norm">>), New(<<f, "cij">>), New(<<f, "ci">>) >>

\* gmm_product_p(params1, params2), with gmm_product inlined
gmm_product_p_stmts(arg1, arg2) ==
    LET f == "gmm_product_p"
        g == "gmm_product"
    IN  << View(<<f, "params1">>, arg1), View(<<f, "params2">>, arg2) >>
        \o sigma_stmts(f, "sig1") \o sigma_stmts(f, "sig2")
        \o << View(<<f, "mu1">>, <<f, "params1">>), View(<<f, "mu2">>, <<f, "params2">>),
              View(<<f, "sig1">>, <<f, "sig1">>), View(<<f, "sig2">>, <<f, "sig2">>),
              View(<<f, "mu1">>, <<f, "mu1">>), View(<<f, "mu2">>, <<f, "mu2">>),
              \* mu3, sig3 = gmm_product(mu1, mu2, sig1, sig2)
              View(<<g, "mu1">>, <<f, "mu1">>), View(<<g, "mu2">>, <<f, "mu2">>),
              View(<<g, "sig1">>, <<f, "sig1">>), View(<<g, "sig2">>, <<f, "sig2">>),
              New(<<g, "sig1_i">>), New(<<g, "sig2_i">>), New(<<g, "sig3">>),
              New(<<g, "mu1">>), New(<<g, "mu2">>), New(<<g, "mu1">>), New(<<g, "mu2">>),
              \* np.matmul(..., out=np.zeros(sig3.shape)), twice, and their sum
              New(<<g, "out1">>), Write(<<g, "out1">>), New(<<g, "out2">>), Write(<<g, "out2">>),
              New(<<g, "mu3">>), View(<<g, "mu3">>, <<g, "mu3">>),
              View(<<f, "mu3">>, <<g, "mu3">>), View(<<f, "sig3">>, <<g, "sig3">>) >>
        \o inverse2x2_stmts("inverse2x2", <<f, "sig1">>)
        \o << New(<<f, "mu_norm">>), New(<<f, "exponent">>), New(<<f, "norm">>), New(<<f, "cij">>),
              New(<<f, "w1">>), New(<<f, "w2">>), View(<<f, "cij">>, <<f, "cij">>), New(<<f, "w3">>),
              New(<<f, "eigvals">>), New(<<f, "eigvecs">>), New(<<f, "th3">>), New(<<f, "params3">>) >>

\* prior_erfprecision(params, rngx, rngy) and bivGauss_analytical_approx(params,
\* rngx, rngy) share the statements up to the in-place sort of dl
corner_distance_stmts(f, arg) ==
    << View(<<f, "params">>, arg),
       New(<<f, "corners">>), New(<<f, "angle1">>), New(<<f, "angle2">>),
       View(<<f, "mean">>, <<f, "params">>),
       New(<<f, "dl1">>), New(<<f, "dl2">>),
       \* dl = np.stack((dl1, dl2)); dl.sort(axis=2)
       New(<<f, "dl">>), Write(<<f, "dl">>) >>

prior_erfprecision_stmts(arg) ==
    LET f == "prior_erfprecision"
    IN  corner_distance_stmts(f, arg)
        \o << View(<<f, "dl">>, <<f, "dl">>), View(<<f, "component_stds">>, <<f, "params">>),
              New(<<f, "separation">>) >>

bivGauss_analytical_approx_stmts(arg) ==
    LET f == "bivGauss_analytical_approx"
    IN  corner_distance_stmts(f, arg)
        \o << New(<<f, "dl">>), New(<<f, "component_vars">>),
              View(<<f, "component_vars">>, <<f, "component_vars">>),
              New(<<f, "erfs">>), New(<<f, "comp_integral">>), New(<<f, "comp_integral">>) >>

\* GaussianEM.lnprior(params): the statements of every test the configuration
\* runs (a failed test returns early and runs fewer of them)
lnprior_stmts(arg) ==
    LET f == "lnprior"
    IN  << View(<<f, "params">>, arg),
           \* prior_bounds(params, self.params_l, self.params_u)
           View(<<"prior_bounds", "params">>, <<f, "params">>),
           View(<<"prior_bounds", "params_l">>, <<"self.params_l">>),
           View(<<"prior_bounds", "params_u">>, <<"self.params_u">>),
           New(<<"prior_bounds", "total">>),
           \* prior_multim(params)
           View(<<"prior_multim", "params">>, <<f, "params">>),
           New(<<"prior_multim", "l_order">>), New(<<"prior_multim", "comp_order">>) >>
        \o (IF integration = "analyticApprox"
            THEN prior_erfprecision_stmts(<<f, "params">>) ELSE << >>)
        \o (IF priorDF
            THEN bivGaussMix_vect_stmts(<<f, "params">>, <<"self.x_2d">>, <<"self.y_2d">>)
                 \o << New(<<"SFprior", "f_max">>) >>
            ELSE << >>)

\* the integrand of lnlike evaluated on a grid: self.distribution on the table
\* (on the two copies and their product with a prior density)
function_stmts(f) ==
    IF priorDF
    THEN bivGaussMix_vect_stmts(<<f, "params1">>, <<"self.x_2d">>, <<"self.y_2d">>)
         \o bivGaussMix_vect_stmts(<<f, "params2">>, <<"self.x_2d">>, <<"self.y_2d">>)
         \o << New(<<f, "function">>) >>
    ELSE bivGaussMix_vect_stmts(<<f, "params">>, <<"self.x_2d">>, <<"self.y_2d">>)

\* integrationRoutine(function, params, ...) as lnlike calls it
integrationRoutine_stmts(f) ==
    CASE integration = "analytic" ->
            << View(<<"multiIntegral", "params">>, <<f, "params">>),
               View(<<"bivariateIntegral", "params">>, <<"multiIntegral", "params">>) >>
      [] integration = "trapezium" ->
            function_stmts(f) \o << New(<<"numericalIntegrate_precompute", "dx">>),
                                    New(<<"numericalIntegrate_precompute", "dy">>),
                                    New(<<"numericalIntegrate_precompute", "volume1">>),
                                    New(<<"numericalIntegrate_precompute", "volume2">>) >>
      [] integration = "analyticApprox" -> bivGauss_analytical_approx_stmts(<<f, "params">>)
      [] integration = "simpson" ->
            << New(<<"simpsonIntegrate", "x_2d">>), New(<<"simpsonIntegrate", "y_2d">>) >>
            \o function_stmts(f) \o function_stmts(f) \o function_stmts(f)
            \o << New(<<"simpsonIntegrate", "volume1">>), New(<<"simpsonIntegrate", "volume2">>) >>
      [] OTHER -> << >>

\* GaussianEM.lnlike(params)
lnlike_stmts(arg) ==
    LET f == "lnlike"
    IN  << View(<<f, "params">>, arg) >>
        \o (IF priorDF
            THEN << np_copy(<<f, "params1">>, <<f, "params">>),
                    np_copy(<<f, "params2">>, <<"self.params_df">>) >>
                 \o gmm_product_p_stmts(<<f, "params">>, <<"self.params_df">>)
                 \o << View(<<f, "params">>, <<"gmm_product_p", "params3">>),
                       View(<<f, "params">>, <<f, "params">>) >>
            ELSE << >>)
        \o error_convolution_stmts(<<f, "params">>)
        \o << View(<<f, "model">>, <<"error_convolution", "ci">>), New(<<f, "contPoints">>) >>
        \o integrationRoutine_stmts(f)

\* GaussianEM.lnprob(params): params = params.reshape(self.param_shape), then
\* lnprior(params) and, if that is finite, lnlike(params)
lnprob_stmts(arg) ==
    << View(<<"lnprob", "params">>, arg), View(<<"lnprob", "params">>, <<"lnprob", "params">>) >>
    \o lnprior_stmts(<<"lnprob", "params">>)
    \o lnlike_stmts(<<"lnprob", "params">>)

---------------------------------------------------------------------------

(* The calls applied to a caller's array: out is the set of memories the   *)
(* call wrote in place, cand the content of the caller's array afterwards  *)

\* the memory of the array the caller passes
Arg == << <<"params">>, 0 >>

\* rows of a flat parameter vector of calc_nlnP_grad_pilogit_NIW: means,
\* two variance entries of either sign, logit correlation, logit weight
VarianceRows == { <<0, 0, a, b, 0, 1>> : a, b \in {-16, -4, 4} }

FrameTables == Candidates \cup { <<r>> : r \in VarianceRows }

\* params[:,2:4] = np.abs(params[:,2:4])
AbsVariances(t) ==
    [j \in 1..Len(t) |-> [c \in 1..6 |-> IF c \in {3, 4} /\ ~isnan(t[j][c]) THEN Abs(t[j][c])
                                          ELSE t[j][c]]]

ScaleParamsFrame ==
    /\ op' = "scaleParams"
    /\ \E w \in {Written(scaleParams_stmts(<<"params">>))} :
        /\ out' = w
        /\ \E eig \in EigOutcomes :
              cand' = IF Arg \in w THEN scaleParams(cand, eig) ELSE cand
    /\ UNCHANGED <<Config, Driver, iter_count, ret, ok, calls, pts, matrix>>

UnscaleParamsFrame ==
    /\ op' = "unscaleParams"
    /\ \E w \in {Written(unscaleParams_stmts(<<"params">>))} :
        /\ out' = w
        /\ \E eig \in EigOutcomes :
              cand' = IF Arg \in w THEN unscaleParams(cand, eig) ELSE cand
    /\ UNCHANGED <<Config, Driver, iter_count, ret, ok, calls, pts, matrix>>

\* an objective function has no statement that stores into its table; were
\* one of its in-place statements to reach it, the content would be any table
LnpriorFrame ==
    /\ op' = "lnprior"
    /\ \E w \in {Written(lnprior_stmts(<<"params">>))} :
        /\ out' = w
        /\ cand' \in IF Arg \in w THEN FrameTables ELSE {cand}
    /\ UNCHANGED <<Config, Driver, iter_count, ret, ok, calls, pts, matrix>>

LnlikeFrame ==
    /\ op' = "lnlike"
    /\ \E w \in {Written(lnlike_stmts(<<"params">>))} :
        /\ out' = w
        /\ cand' \in IF Arg \in w THEN FrameTables ELSE {cand}
    /\ UNCHANGED <<Config, Driver, iter_count, ret, ok, calls, pts, matrix>>

LnprobFrame ==
    /\ op' = "lnprob"
    /\ \E w \in {Written(lnprob_stmts(<<"params">>))} :
        /\ out' = w
        /\ cand' \in IF Arg \in w THEN FrameTables ELSE {cand}
    /\ UNCHANGED <<Config, Driver, iter_count, ret, ok, calls, pts, matrix>>

CalcNlnPGrad ==
    /\ op' = "calc_nlnP_grad_pilogit_NIW"
    /\ \E w \in {Written(calc_nlnP_grad_pilogit_NIW_stmts(<<"params">>))} :
        /\ out' = w
        /\ cand' = IF Arg \in w THEN AbsVariances(cand) ELSE cand
    /\ UNCHANGED <<Config, Driver, iter_count, ret, ok, calls, pts, matrix>>

InitFrame ==
    /\ integration \in Integrations
    /\ priorDF \in BOOLEAN
    /\ runningL = FALSE
    /\ params_l = [j \in 1..NComp |-> LowerRow]
    /\ params_u = [j \in 1..NComp |-> UpperRow]
    /\ params_f = <<>>
    /\ iter_count = 0
    /\ cand \in FrameTables
    /\ op = "init"
    /\ ret = 0
    /\ ok = TRUE
    /\ calls = <<>>
    /\ pts = <<>>
    /\ out = {}
    /\ params_f_scaled = <<>>
    /\ seterr = DefaultSettings
    /\ frame = NoFrame
    /\ raised = "none"
    /\ evals = 0
    /\ matrix = NoMatrix

NextFrame ==
    \/ ScaleParamsFrame
    \/ UnscaleParamsFrame
    \/ LnpriorFrame
    \/ LnlikeFrame
    \/ LnprobFrame
    \/ CalcNlnPGrad

SpecFrame == InitFrame /\ [][NextFrame]_vars

---------------------------------------------------------------------------

(* Construction, initial parameters and the initial ensemble.               *)
(* Numbers of this section: ranges in position units, the scaling standard  *)
(* deviations in quarters of a unit; the tables of initParams in hundredths *)
(* (means, eigenvalues), milliradians and thousandths (weights); a draw of  *)
(* np.random.rand is a number of quarters 0..3.                             *)

\* the range arguments of the constructor: Python ints (the default (0,1)) or
\* floats; the code is Python 2, where / on two ints is floor division
ConstructDomains ==
    { [ints |-> TRUE, x |-> <<0, 1>>, y |-> <<0, 1>>],
      [ints |-> TRUE, x |-> <<-6, 6>>, y |-> <<0, 3>>],
      [ints |-> TRUE, x |-> <<0, 100>>, y |-> <<-1, 7>>],
      [ints |-> FALSE, x |-> <<0, 1>>, y |-> <<0, 1>>],
      [ints |-> FALSE, x |-> <<-6, 6>>, y |-> <<0, 3>>] }

\* the observed points: none, one, two, three
ConstructPoints ==
    { << >>, << <<0, 0>> >>, << <<2, 5>> >>, << <<-1, -1>>, <<1, 1>> >>, << <<3, 1>>, <<3, 2>> >>,
      << <<0, 0>>, <<4, 0>>, <<8, 3>> >> }

\* np.std in quarters
Std4(s) == Isqrt((16 * SeqSum([i \in 1..Len(s) |-> (s[i] - Mean(s)) * (s[i] - Mean(s))])) \div Len(s))

\* (rng[1] - rng[0]) / 4 in quarters
QuarterWidth(ints, rng) == IF ints THEN 4 * ((rng[2] - rng[1]) \div 4) ELSE rng[2] - rng[1]

\* GaussianEM.__init__ with runscaling: the statistics for feature scaling
ScalingRecord(points, dom) ==
    LET xs == [i \in 1..Len(points) |-> points[i][1]]
        ys == [i \in 1..Len(points) |-> points[i][2]]
    IN  IF Len(xs) > 1
        THEN [sx4 |-> Std4(xs), sy4 |-> Std4(ys)]
        ELSE [sx4 |-> QuarterWidth(dom.ints, dom.x), sy4 |-> QuarterWidth(dom.ints, dom.y)]

\* what np.random.rand gave for one component: mean-x, mean-y, the two
\* eigenvalue draws, angle, weight
DrawSet ==
    { [mux |-> 0, muy |-> 0, la |-> 0, lb |-> 0, th |-> 0, w |-> 0],
      [mux |-> 1, muy |-> 2, la |-> 3, lb |-> 1, th |-> 2, w |-> 3],
      [mux |-> 2, muy |-> 3, la |-> 2, lb |-> 3, th |-> 3, w |-> 1],
      [mux |-> 3, muy |-> 1, la |-> 3, lb |-> 3, th |-> 1, w |-> 2] }

\* the draws of every component after the second
TailDraw == [mux |-> 1, muy |-> 2, la |-> 3, lb |-> 1, th |-> 2, w |-> 3]

\* the scaled ranges initParams is called with
StartDomains ==
    { [x |-> <<0, 1>>, y |-> <<0, 1>>],
      [x |-> <<-6, 6>>, y |-> <<-6, 6>>],
      [x |-> <<0, 100>>, y |-> <<0, 1>>] }

\* the configured floors s_min (0.1 is the default), in hundredths
Floors == {10, 50}

\* len(self.photoDF.x)
ndf == 4

initParams(nComponents, rx, ry, withDF, nstars, ndf_, l_min_arg, draws) ==
    LET wd == rx[2] - rx[1]
        ht == ry[2] - ry[1]
        comps == 1..nComponents
        mux_i == [j \in comps |-> (draws[j].mux * wd * 100) \div 4 + 100 * rx[1]]
        muy_i == [j \in comps |-> (draws[j].muy * ht * 100) \div 4 + 100 * ry[1]]
        half_diag == Isqrt((wd * wd + ht * ht) * 10000) \div 2
        \* if priorDF: l_min = ...; if not priorDF: l_min = ...
        l_min1 == IF withDF THEN Isqrt((wd * ht * 10000) \div nstars) ELSE l_min_arg
        l_min == IF ~withDF THEN Isqrt((wd * ht * 10000) \div nstars) \div 10 ELSE l_min1
        \* l1_i, l2_i = np.sort(np.random.rand(2, nComponents), axis=0)
        l1_i == [j \in comps |-> (MinOf({draws[j].la, draws[j].lb}) * half_diag) \div 4 + l_min]
        l2_i == [j \in comps |-> (MaxOf({draws[j].la, draws[j].lb}) * half_diag) \div 4 + l_min]
        th_i == [j \in comps |-> (draws[j].th * 3142) \div 4]
        w_l0 == 1000 \div (5 * nComponents)
        w_i0 == [j \in comps |-> (draws[j].w * (2000 \div nComponents - w_l0)) \div 4 + w_l0]
        w_l == IF withDF THEN (w_l0 * nstars) \div ndf_ ELSE w_l0 * nstars
        w_i == [j \in comps |-> IF withDF THEN (w_i0[j] * nstars) \div ndf_ ELSE w_i0[j] * nstars]
        w_u == IF withDF THEN 10000 ELSE 10000 * nstars
        l1_u == MinOf({wd, ht}) * 30 * 100
        l2_u == MaxOf({wd, ht}) * 30 * 100
        unsorted == [j \in comps |-> <<mux_i[j], muy_i[j], l1_i[j], l2_i[j], th_i[j], w_i[j]>>]
        \* params_i = params_i[params_i[:,0].argsort()]
        order == argsort(mux_i)
    IN  [params_i |-> [j \in comps |-> unsorted[order[j]]],
         params_l |-> [j \in comps |-> <<100 * rx[1], 100 * ry[1], l_min, l_min, 0, w_l>>],
         params_u |-> [j \in comps |-> <<100 * rx[2], 100 * ry[2], l1_u, l2_u, 3142, w_u>>]]

\* the seed table, the bounds and the outcome of emcee_ball's normal draws;
\* numbers in thousandths. wide: the bounds leave room around the seed;
\* narrow: the mean-x range (1000, 1001) is smaller than |mean-x| / 500
BallSeed(kind) ==
    [j \in 1..NComp |->
        <<(IF kind = "wide" THEN 2000 + 10 * j ELSE 1000000 + (1000 * j) \div (NComp + 1)),
          -1500, 1000, 1004, 927, 1000>>]

BallLower(kind) ==
    [j \in 1..NComp |-> <<(IF kind = "wide" THEN -6000 ELSE 1000000), -6000, 62, 62, 0, 100>>]

BallUpper(kind) ==
    [j \in 1..NComp |-> <<(IF kind = "wide" THEN 6000 ELSE 1001000), 6000, 360000, 360000, 3142, 20000>>]

BallKinds == {"wide", "narrow"}

\* a draw of np.random.normal for one walker, as whole multiples of the scale
\* of each entry: the same multiple everywhere, the eigenvalues pushed across
\* each other, or the mean-x of the components pushed across each other
Deviations ==
    { [j \in 1..NComp |-> <<k, k, k, k, k, k>>] : k \in {-3, -2, 0, 2} }
        \cup { [j \in 1..NComp |-> <<0, 0, 3, -3, 0, 0>>],
               [j \in 1..NComp |-> <<(IF j = 1 THEN 3 ELSE -3), 0, 0, 0, 0, 0>>] }

\* walkers of the ensemble (the code takes nwalkers = 2 * ndim)
NWalkers == 2

\* p0[lb] = pl[lb] + pl[lb] - p0[lb], then the same against the upper bound
Reflect(v, lo, hi) ==
    LET low == IF v < lo THEN lo + lo - v ELSE v
    IN  IF low > hi THEN hi + hi - low ELSE low

\* the initial ensemble of emcee_ball before the sampler runs
emcee_ball_p0(params, pl, pu, nwalkers, devs) ==
    LET comps == 1..Len(params)
        walkers == 1..nwalkers
        \* np.random.normal(loc=p0, scale=np.abs(p0/500)); p0[0,:] = params
        drawn == [w \in walkers |-> [j \in comps |-> [c \in 1..6 |->
                    IF w = 1 THEN params[j][c]
                    ELSE params[j][c] + devs[w][j][c] * (Abs(params[j][c]) \div 500)]]]
        bounded == [w \in walkers |-> [j \in comps |-> [c \in 1..6 |->
                    Reflect(drawn[w][j][c], pl[j][c], pu[j][c])]]]
        \* p0[:,:,2:4] = np.sort(p0[:,:,2:4], axis=2)
        ordered == [w \in walkers |-> [j \in comps |->
                    [bounded[w][j] EXCEPT ![L1] = MinOf({bounded[w][j][L1], bounded[w][j][L2]}),
                                          ![L2] = MaxOf({bounded[w][j][L1], bounded[w][j][L2]})]]]
        \* p0[:,:,0] = np.sort(p0[:,:,0], axis=1)
        mx == [w \in walkers |-> [j \in comps |-> ordered[w][j][MX]]]
    IN  [w \in walkers |-> [j \in comps |->
            [ordered[w][j] EXCEPT ![MX] = mx[w][argsort(mx[w])[j]]]]]

\* GaussianEM(x, y, rngx, rngy, runscaling=True): the scaling statistics
Construct ==
    /\ op = "init"
    /\ op' = "__init__"
    /\ \E points \in ConstructPoints, dom \in ConstructDomains :
          out' = [points |-> points, dom |-> dom, scale |-> ScalingRecord(points, dom)]
    /\ UNCHANGED <<Config, Driver, iter_count, cand, ret, ok, calls, pts, matrix>>

\* optimizeParams: params_i, params_l, params_u = initParams(..., l_min=self.s_min)
InitParams ==
    /\ op = "__init__"
    /\ op' = "initParams"
    /\ \E n \in 1..NComp, dom \in StartDomains, nstars \in {1, 4}, s_min \in Floors :
        \E draws \in { d \in [1..n -> DrawSet] : \A j \in 3..n : d[j] = TailDraw } :
          out' = [s_min |-> s_min, dom |-> dom, nstars |-> nstars,
                  tables |-> initParams(n, dom.x, dom.y, priorDF, nstars, ndf, s_min, draws)]
    /\ UNCHANGED <<Config, Driver, iter_count, cand, ret, ok, calls, pts, matrix>>

\* optimize(..., method='emceeBall'): the ensemble the sampler starts from;
\* the draws of the first walker are overwritten by the seed
EmceeBall ==
    /\ op = "initParams"
    /\ op' = "emcee_ball"
    /\ \E kind \in BallKinds, devs \in [2..NWalkers -> Deviations] :
          out' = [params |-> BallSeed(kind), params_l |-> BallLower(kind), params_u |-> BallUpper(kind),
                  p0 |-> emcee_ball_p0(BallSeed(kind), BallLower(kind), BallUpper(kind), NWalkers, devs)]
    /\ UNCHANGED <<Config, Driver, iter_count, cand, ret, ok, calls, pts, matrix>>

InitStart ==
    /\ integration = "trapezium"
    /\ priorDF \in BOOLEAN
    /\ runningL = FALSE
    /\ params_l = [j \in 1..NComp |-> LowerRow]
    /\ params_u = [j \in 1..NComp |-> UpperRow]
    /\ params_f = <<>>
    /\ iter_count = 0
    /\ cand = <<>>
    /\ op = "init"
    /\ ret = 0
    /\ ok = TRUE
    /\ calls = <<>>
    /\ pts = <<>>
    /\ out = <<>>
    /\ params_f_scaled = <<>>
    /\ seterr = DefaultSettings
    /\ frame = NoFrame
    /\ raised = "none"
    /\ evals = 0
    /\ matrix = NoMatrix

NextStart ==
    \/ Construct
    \/ InitParams
    \/ EmceeBall

SpecStart == InitStart /\ [][NextStart]_vars

---------------------------------------------------------------------------

(* Properties *)

\* the entries of a call trace
Elems(s) == {s[i] : i \in 1..Len(s)}

\* the calls lnlike makes
LikeCalls == {"gmm_product_p", "error_convolution", "integrationRoutine"}

\* C1: for every candidate table, lnprob returns -infinity without evaluating
\* lnlike (no mixture evaluation at the observations, no integration routine
\* call) when lnprior is not finite, and lnprior(params) + lnlike(params) otherwise.
C1_lnprob_shortcircuit ==
    op = "lnprob" =>
        IF ~isfinite(lnprior(cand).val)
        THEN ret = NegInf /\ Elems(calls) \cap LikeCalls = {}
        ELSE \E eig \in EigFor :
                /\ ret = FAdd(lnprior(cand).val, lnlike(cand, eig).val)
                /\ calls = lnprior(cand).calls \o lnlike(cand, eig).calls

\* lnprob has returned for a candidate that the ordering test rejects and whose
\* likelihood is finite
C1_witness ==
    /\ op = "lnprob"
    /\ lnprior(cand).calls = <<"prior_bounds", "prior_multim">>
    /\ ~isfinite(lnprior(cand).val)
    /\ \E eig \in EigFor : isfinite(lnlike(cand, eig).val)
    /\ ret = NegInf

\* C2: lnprior returns 0.0 if and only if the bounds test, the ordering test, the
\* precision-safety test (applicable only under analyticApprox) and the
\* monotone-selection-function test (applicable only with a prior density) all
\* pass, and -infinity otherwise; a test that is not applicable never rejects.
C2_lnprior_iff ==
    op = "lnprior" =>
        /\ ret \in {0, NegInf}
        /\ ret = 0 <=>
              /\ prior_bounds(cand, params_l, params_u)
              /\ prior_multim(cand)
              /\ (integration = "analyticApprox" => prior_erfprecision(cand, rngx_s, rngy_s))
              /\ (priorDF => SFprior([Q \in PointArrays |-> bivGaussMix_vect(cand, Q)], xy_2d))

\* lnprior has returned 0.0 for a candidate that would fail the precision-safety
\* test and the monotone-selection-function test, neither of which is applicable
C2_witness ==
    /\ op = "lnprior"
    /\ integration # "analyticApprox"
    /\ ~priorDF
    /\ ~prior_erfprecision(cand, rngx_s, rngy_s)
    /\ ~SFprior([Q \in PointArrays |-> bivGaussMix_vect(cand, Q)], xy_2d)
    /\ ret = 0

\* a non-NaN point, and a point inside or on the boundary of the rectangle
\* [rngx[0], rngx[1]] x [rngy[0], rngy[1]]
NotNaNPoint(pt) == ~isnan(pt[1]) /\ ~isnan(pt[2])
InRectangle(pt) ==
    /\ FGe(pt[1], rngx[1]) /\ FLe(pt[1], rngx[2])
    /\ FGe(pt[2], rngy[1]) /\ FLe(pt[2], rngy[2])

\* C3: for every array of evaluation points passed to __call__, each non-NaN
\* point strictly outside the rectangle has exactly 0.0 in the returned array,
\* and each point inside or on the boundary keeps the raw mixture value.
C3_outside_zero ==
    op = "call" =>
        \A i \in 1..Len(pts) :
            NotNaNPoint(pts[i]) =>
                IF InRectangle(pts[i])
                THEN out[i] = bivGaussMix_vect(params_f, pts)[i]
                ELSE out[i] = 0

\* C4: prior_bounds passes if and only if every entry p of the table satisfies
\* lower < p < upper for its own bound pair; one entry equal to its lower or
\* to its upper bound makes the test fail.
C4_bounds_strict ==
    op = "prior_bounds" =>
        (ok <=> \A j \in 1..Len(cand), c \in 1..6 :
                    FLt(params_l[j][c], cand[j][c]) /\ FLt(cand[j][c], params_u[j][c]))

\* strictly ascending mean-x
Ascending(t) == \A j \in 1..(Len(t) - 1) : FLt(t[j][MX], t[j + 1][MX])

\* C5 (as amended): prior_multim rejects every table in which some component has
\* lambda1 > lambda2, and passes every table with ascending mean-x in which
\* every component has lambda1 <= lambda2: lambda1 == lambda2 is accepted.
C5_lambda_order ==
    op = "prior_multim" =>
        /\ (\E j \in 1..Len(cand) : FGt(cand[j][L1], cand[j][L2])) => ~ok
        /\ (Ascending(cand) /\ \A j \in 1..Len(cand) : FLe(cand[j][L1], cand[j][L2])) => ok

\* prior_multim has passed a table with a component whose eigenvalues are equal
C5_witness ==
    /\ op = "prior_multim"
    /\ \E j \in 1..Len(cand) : cand[j][L1] = cand[j][L2]
    /\ ok

\* C5 as stated: prior_multim passes only if lambda1 < lambda2 strictly for every
\* component; lambda1 == lambda2 is rejected.
C5_lambda_strict ==
    op = "prior_multim" /\ ok =>
        \A j \in 1..Len(cand) : FLt(cand[j][L1], cand[j][L2])

\* some component has a larger mean-x than the component that follows it
Descends(t) == \E j \in 1..(Len(t) - 1) : FGt(t[j][MX], t[j + 1][MX])

\* C6: prior_multim fails for every table in which some component has a larger
\* mean-x than the component that follows it, whatever the eigenvalues, and
\* lnprior returns -infinity for such a table.
C6_mean_order ==
    /\ (op = "prior_multim" /\ Descends(cand)) => ~ok
    /\ (op = "lnprior" /\ Descends(cand)) => ret = NegInf

\* lnprior has rejected a table that passes the bounds test and has
\* lambda1 < lambda2 in every component, its rows out of mean-x order
C6_witness ==
    /\ op = "lnprior"
    /\ Descends(cand)
    /\ prior_bounds(cand, params_l, params_u)
    /\ \A j \in 1..Len(cand) : FLt(cand[j][L1], cand[j][L2])
    /\ calls = <<"prior_bounds", "prior_multim">>
    /\ ret = NegInf

\* the minimum distance from the mean of a component to the domain boundary
\* along the axis (ax, ay), in fifths: the nearer of the two extreme corners
BoundaryDistance(row, ax, ay) ==
    LET cs == Corners(rngx_s, rngy_s)
        D == {Proj(row, cs[c], ax, ay) : c \in 1..4}
    IN  IF Abs(MinOf(D)) <= Abs(MaxOf(D)) THEN Abs(MinOf(D)) ELSE Abs(MaxOf(D))

\* distance / (sqrt(2) * sqrt(eigenvalue)) > 25, the distance in fifths and the
\* eigenvalue in sixteenths:  16 * dl^2 > 2 * 25^2 * 25 * l
StdSepExceeds(dl, l) == 16 * dl * dl > 31250 * l

\* some axis of the component is further than 25 from the boundary, each axis
\* with the eigenvalue bivGauss_analytical_approx and the evaluator give it:
\* (cos th, -sin th) with lambda1, (sin th, cos th) with lambda2
TooFar(row) ==
    /\ ~HasNaN(row)
    /\ \/ StdSepExceeds(BoundaryDistance(row, cos5(row[TH]), -sin5(row[TH])), row[L1])
       \/ StdSepExceeds(BoundaryDistance(row, sin5(row[TH]), cos5(row[TH])), row[L2])

\* C7: prior_erfprecision fails if and only if, for some component and some
\* principal axis, the minimum distance from the mean to the domain boundary
\* along that axis divided by sqrt(2) times the standard deviation of that same
\* axis is greater than 25.
C7_erfprecision_iff ==
    op = "prior_erfprecision" =>
        (~ok <=> \E j \in 1..Len(cand) : TooFar(cand[j]))

\* the mixture of the candidate on the precomputed grid
GridValues == bivGaussMix_vect(cand, xy_2d)

TestOrder ==
    <<"prior_bounds", "prior_multim">>
        \o (IF integration = "analyticApprox" THEN <<"prior_erfprecision">> ELSE <<>>)
        \o (IF priorDF THEN <<"SFprior">> ELSE <<>>)

\* whether the named test passes for the candidate
Passes(test) ==
    CASE test = "prior_bounds" -> prior_bounds(cand, params_l, params_u)
      [] test = "prior_multim" -> prior_multim(cand)
      [] test = "prior_erfprecision" -> prior_erfprecision(cand, rngx_s, rngy_s)
      [] test = "SFprior" -> SFprior([Q \in PointArrays |-> bivGaussMix_vect(cand, Q)], xy_2d)

\* C9: within one lnprior evaluation the tests run in the order bounds, ordering,
\* precision-safety, monotone-selection-function and the first failing test ends
\* the evaluation: the grid evaluation for the monotone-selection-function test
\* never happens for a candidate that fails the bounds test or the ordering test.
C9_test_order ==
    op = "lnprior" =>
        /\ Len(calls) >= 1 /\ Len(calls) <= Len(TestOrder)
        /\ calls = SubSeq(TestOrder, 1, Len(calls))
        /\ \A k \in 1..(Len(calls) - 1) : Passes(calls[k])
        /\ Len(calls) < Len(TestOrder) => ~Passes(calls[Len(calls)])
        /\ (~prior_bounds(cand, params_l, params_u) \/ ~prior_multim(cand))
               => "SFprior" \notin Elems(calls)

\* lnprior has stopped at the ordering test, with a prior density configured, for
\* a candidate that the monotone-selection-function test would reject as well
C9_witness ==
    /\ op = "lnprior"
    /\ priorDF
    /\ prior_bounds(cand, params_l, params_u)
    /\ ~prior_multim(cand)
    /\ ~SFprior([Q \in PointArrays |-> bivGaussMix_vect(cand, Q)], xy_2d)
    /\ calls = <<"prior_bounds", "prior_multim">>
    /\ ret = NegInf

\* C10: without a prior density, lnlike returns the sum over the observed points
\* of the log of the error-convolved mixture at the point, minus the value the
\* selected integration routine returns for the unconvolved mixture over the
\* scaled domain.
C10_lnlike_value ==
    (op = "lnlike" /\ ~priorDF) =>
        LET model == error_convolution(cand, XY(x_s, y_s), sig_xy_s)
            points == FSum([i \in 1..Len(model) |-> np_log(model[i])])
            integral == integrationRoutine([Q \in PointArrays |-> bivGaussMix_vect(cand, Q)], cand, NComp,
                                           rngx_s, rngy_s, xy_2d, integration)
        IN  ret = FSub(points, integral)

\* lnlike has returned a finite value without a prior density, for a candidate
\* whose convolved and unconvolved mixtures differ at an observed point
C10_witness ==
    /\ op = "lnlike"
    /\ ~priorDF
    /\ isfinite(ret)
    /\ error_convolution(cand, XY(x_s, y_s), sig_xy_s) # bivGaussMix_vect(cand, XY(x_s, y_s))

\* the point term of lnlike with a prior density: the log of the error-convolved
\* product mixture summed over the observed points
ProductPoints(eig) ==
    LET model == error_convolution(gmm_product_p(cand, params_df, eig), XY(x_s, y_s), sig_xy_s)
    IN  FSum([i \in 1..Len(model) |-> np_log(model[i])])

\* the value the selected integration routine returns for the product of the
\* fitted mixture with the prior density
ProductIntegral(eig) ==
    integrationRoutine([Q \in PointArrays |-> ArrMul(bivGaussMix_vect(cand, Q),
                                                     bivGaussMix_vect(params_df, Q))],
                       gmm_product_p(cand, params_df, eig), NComp,
                       rngx_s, rngy_s, xy_2d, integration)

\* the sum of the weight column of the table passed to lnlike
RawWeights == FSum([j \in 1..Len(cand) |-> FScale(cand[j][WT], 1000)])

\* C11: with a prior density, the integral term lnlike subtracts from the point
\* term is the sum of the weight column of the fitted-mixture table passed to
\* lnlike, for every integration setting.
C11_integral_raw_weights ==
    (op = "lnlike" /\ priorDF) =>
        \E eig \in EigFor : ret = FSub(ProductPoints(eig), RawWeights)

\* C14: nll returns a finite number or +infinity: +infinity when the prior
\* rejects the table, and +infinity when the likelihood comes out not finite
\* (NaN or -infinity); it never returns NaN.
C14_nll_never_nan ==
    op = "nll" =>
        /\ ret # NaN
        /\ ret # NegInf
        /\ (~isfinite(lnprior(cand).val) => ret = PosInf)
        /\ \A eig \in EigFor : ~isfinite(lnlike(cand, eig).val) => ret = PosInf

\* the exceptions that leave optimize, and the configuration errors
OptimizeRaises == {"ValueError: Name of method not recognised.", "MinimizerError"}
ConfigErrors == {"ValueError: No integration routine", "ValueError: Name of method not recognised."}

\* optimize has been left, by its return or by an exception
OptimizeLeft ==
    \/ frame.pc \in {"optimized", "returned"}
    \/ frame.pc = "raised" /\ raised \in OptimizeRaises

\* C12: on every exit from optimize, by return or by an exception (method name
\* not recognised, exception from the objective or the minimizer), the float
\* error settings for invalid, divide and overflow are what they were on entry.
C12_seterr_restored ==
    OptimizeLeft => seterr = frame.saved

\* C13: "Couldn't initialise good parameters" is raised only when the attempts
\* so far all gave a log-posterior that is not finite; an attempt that gives a
\* finite log-posterior, the last permitted one included, ends the loop and the
\* call goes on to the optimizer.
C13_retry_loop ==
    /\ raised = "ValueError: Couldn't initialise good parameters" => ~isfinite(ret)
    /\ (op = "attempt" /\ raised # "AttributeError" /\ ret # ValueError /\ isfinite(ret))
           => frame.pc = "start"

\* C15: an integration name integrationRoutine does not know, once a candidate
\* reaches the likelihood, and a method name optimize does not know, once
\* optimize is reached, raise ValueError; the exception ends the call of
\* optimizeParams (the loop does not go on to another attempt), comes before any
\* call of the minimizer, and leaves params_f and params_f_scaled as they were.
C15_config_errors ==
    [][ /\ (frame.pc = "loop" /\ op' = "attempt" /\ integration \notin Integrations
                /\ Evaluated(calls'))
            => raised' = "ValueError: No integration routine"
        /\ (frame.pc = "start" /\ frame.method \notin KnownMethods /\ frame.method # "callable")
            => raised' = "ValueError: Name of method not recognised."
        /\ raised' \in ConfigErrors
            => /\ frame'.pc = "raised"
               /\ frame.pc \in {"loop", "start"}
               /\ frame'.nfev = 0
               /\ params_f' = params_f
               /\ params_f_scaled' = params_f_scaled
        /\ raised \notin ConfigErrors
      ]_vars

\* the second attempt of a call reached integrationRoutine under a name it does
\* not know, after a first attempt the prior rejected
C15_witness ==
    /\ raised = "ValueError: No integration routine"
    /\ frame.pc = "raised"
    /\ frame.a = 1
    /\ integration \notin Integrations

\* C16: from the reset of iter_count by optimize on, iter_count is the number of
\* likelihood evaluations made since the reset, with runningL set or not.
C16_iter_count ==
    (frame.pc \in {"minimize", "optimized", "returned"} \/ (frame.pc = "raised" /\ raised \in OptimizeRaises))
        => iter_count = evals

\* C17: when optimizeParams has returned, whatever the method (Powell, Stoch,
\* Anneal, emceeBall or a callable), params_f_scaled is the table the optimizer
\* returned, params_f is unscaleParams of it, and the table returned is params_f.
C17_result_saved ==
    frame.pc = "returned" =>
        /\ params_f_scaled = frame.paramsOP
        /\ \E eig \in EigOutcomes : params_f = unscaleParams(params_f_scaled, eig)
        /\ frame.result = params_f

\* C18: for a table with positive eigenvalues and an array of points,
\* error_convolution with every measurement covariance zero returns, point by
\* point, the value bivGaussMix_vect returns.
C18_zero_covariance ==
    (op = "error_convolution" /\ raised = "none") => out = bivGaussMix_vect(cand, pts)

\* error_convolution has returned, for points that are not all the same, a
\* positive density at one of them and a different value at another
C18_witness ==
    /\ op = "error_convolution"
    /\ raised = "none"
    /\ \E i, j \in 1..Len(pts) :
        /\ isfinite(out[i]) /\ out[i] > 0
        /\ out[j] # out[i]
    /\ \E k \in 1..Len(cand) : cand[k][WT] > 1

\* the leading shape of the array passed to inverse2x2
Lead == SubSeq(matrix.shape, 1, Len(matrix.shape) - 2)

\* inv, at the leading index idx, is the inverse of the matrix there
InverseAt(inv, idx) ==
    \A i, j \in 0..1 :
        LET a == inv.at[idx \o <<0, j>>]
            b == inv.at[idx \o <<1, j>>]
        IN  /\ a[2] # 0
            /\ b[2] # 0
            /\ matrix.at[idx \o <<i, 0>>] * a[1] * b[2] + matrix.at[idx \o <<i, 1>>] * b[1] * a[2]
                   = (IF i = j THEN a[2] * b[2] ELSE 0)

\* C19: for a stack of 2x2 matrices of any leading shape (one matrix, a stack
\* along one axis, a stack along two axes) with determinants not zero,
\* inverse2x2 returns, in the layout of the input, for each matrix M an inverse I
\* with M * I the identity, and the determinant M00 * M11 - M01 * M10.
C19_inverse_any_shape ==
    op = "inverse2x2" =>
        /\ raised = "none"
        /\ out.inv.shape = matrix.shape
        /\ out.det.shape = Lead
        /\ \A idx \in Indices(Lead) :
            /\ out.det.at[idx] = matrix.at[idx \o <<0, 0>>] * matrix.at[idx \o <<1, 1>>]
                                 - matrix.at[idx \o <<0, 1>>] * matrix.at[idx \o <<1, 0>>]
            /\ InverseAt(out.inv, idx)

\* the component is centred and its standard deviations are at most a sixth of
\* the distance from the mean to each edge of the range
WellInside(row) ==
    /\ 2 * row[MX] = rngx_s[1] + rngx_s[2]
    /\ 2 * row[MY] = rngy_s[1] + rngy_s[2]
    /\ \A l \in {row[L1], row[L2]}, d \in {rngx_s[2] - row[MX], rngy_s[2] - row[MY]} :
          36 * l <= 16 * d * d

\* C20: for one component well inside the range, the integration routines
\* return a value within 1% of the weight of the component. Stated for the two
\* routines that work from the table (analytic, analyticApprox); trapezium and
\* simpson have the same bound in the code's 250 x 250 and 100 x 250 grids, which
\* the grids of GridN and SimpNx x SimpNy points do not resolve.
C20_integral_is_weight ==
    (op = "integrationRoutine" /\ integration \in {"analytic", "analyticApprox"}
            /\ Len(cand) = 1 /\ WellInside(cand[1]))
        => /\ isfinite(ret)
           /\ 100 * Abs(ret - 1000 * cand[1][WT]) <= 1000 * cand[1][WT]

\* C21: with integration 'analytic', integrationRoutine on a table in the
\* layout of the mixture evaluator returns the sum of the weight column.
C21_analytic_weight_sum ==
    (op = "integrationRoutine" /\ integration = "analytic")
        => ret = FSum([i \in 1..Len(cand) |-> 1000 * cand[i][WT]])

\* C22: for a table whose components have lambda1, lambda2 > 0 and an angle
\* in [0, pi), unscaleParams(scaleParams(table)) equals the table in every
\* column.
C22_scale_round_trip ==
    (op = "unscaleParams"
            /\ \A j \in 1..Len(cand) :
                  cand[j][L1] > 0 /\ cand[j][L2] > 0 /\ cand[j][TH] \in 0..5)
        => out = cand

\* C23: bivGaussMix_vect on a table of zero components returns, without
\* raising, an array of the shape of the coordinates filled with 0.
C23_empty_table_zero ==
    (op = "bivGaussMix_vect" /\ cand = <<>>)
        => /\ raised = "none"
           /\ out = [i \in 1..Len(pts) |-> 0]

\* the memories a call must leave alone: the caller's array and the arrays
\* the model object holds
Protected == { <<n, 0>> : n \in Externals }

\* C24: scaleParams, unscaleParams, lnprior, lnlike and lnprob write in place
\* into none of the arrays they are given or the model holds (bounds tables,
\* prior-density table, scaled observations), and the caller's table has the
\* same content after the call as before.
C24_no_argument_modified ==
    [][op' \in {"scaleParams", "unscaleParams", "lnprior", "lnlike", "lnprob"}
          => (out' \cap Protected = {} /\ cand' = cand)]_vars

\* a call of the objective path has written arrays in place (its own), with a
\* prior density and the erfc integral configured
C24_witness ==
    /\ op \in {"scaleParams", "lnprob"}
    /\ out # {}
    /\ priorDF
    /\ integration = "analyticApprox"

\* C27: calc_nlnP_grad_pilogit_NIW leaves the vector passed by the caller
\* element for element unchanged.
C27_vector_unchanged ==
    [][op' = "calc_nlnP_grad_pilogit_NIW" => cand' = cand]_vars

\* C26: a table with a NaN entry is rejected by prior_bounds, and lnprior
\* returns -infinity for it.
C26_nan_fails_closed ==
    (\E j \in 1..Len(cand) : HasNaN(cand[j]))
        => /\ op = "prior_bounds" => ~ok
           /\ op = "lnprior" => ret = NegInf

\* C25: the lower bound initParams gives to both eigenvalues of every
\* component is the floor s_min it was called with.
C25_floor_is_s_min ==
    op = "initParams" =>
        \A j \in 1..Len(out.tables.params_l) :
            /\ out.tables.params_l[j][L1] = out.s_min
            /\ out.tables.params_l[j][L2] = out.s_min

\* C29: with fewer than two points the scaling deviations sx, sy are strictly
\* positive for every range of positive width.
C29_scaling_positive ==
    (op = "__init__" /\ Len(out.points) < 2) => (out.scale.sx4 > 0 /\ out.scale.sy4 > 0)

\* C30: the tables of initParams: params_i is sorted by mean-x, has
\* lambda1 <= lambda2 in every component and lies within [params_l, params_u].
C30_initial_within_bounds ==
    op = "initParams" =>
        LET t == out.tables
        IN  /\ \A j \in 1..(Len(t.params_i) - 1) : t.params_i[j][MX] <= t.params_i[j + 1][MX]
            /\ \A j \in 1..Len(t.params_i) :
                  /\ t.params_i[j][L1] <= t.params_i[j][L2]
                  /\ \A c \in 1..6 :
                        /\ t.params_l[j][c] <= t.params_i[j][c]
                        /\ t.params_i[j][c] <= t.params_u[j][c]

\* C28: the initial ensemble of emcee_ball lies within the bounds, has
\* lambda1 <= lambda2 in every component, ascending mean-x in every walker,
\* and the seed table as its first walker.
C28_ensemble_valid ==
    op = "emcee_ball" =>
        /\ out.p0[1] = out.params
        /\ \A w \in 1..Len(out.p0) :
              /\ \A j \in 1..(Len(out.p0[w]) - 1) : out.p0[w][j][MX] <= out.p0[w][j + 1][MX]
              /\ \A j \in 1..Len(out.p0[w]) :
                    /\ out.p0[w][j][L1] <= out.p0[w][j][L2]
                    /\ \A c \in 1..6 :
                          /\ out.params_l[j][c] <= out.p0[w][j][c]
                          /\ out.p0[w][j][c] <= out.params_u[j][c]

====
